---------------------------- MODULE Spec2Model ----------------------------
(***************************************************************************)
(* A model of the core of the ebba IRC bot: the sliding-window rate gate   *)
(* (core/utils.py), the owner/identity builtins and the connection engine  *)
(* (core/irc_client.py), the handler registry (core/plugin_manager.py) and *)
(* the supervisor (bot.py).                                                *)
(*                                                                         *)
(* The program is one asyncio event loop: a coroutine runs without         *)
(* interruption from one await that really suspends to the next, so every  *)
(* action below is one such run-to-suspension step of one task.            *)
(*                                                                         *)
(* The module holds one set of variables and several specifications, one   *)
(* per component; a specification leaves the variables of the other        *)
(* components unchanged.                                                   *)
(*   SpecGate   - AsyncRateLimiter.acquire under concurrent callers        *)
(*   SpecOwner  - PRIVMSG builtins, owner records and their persistence    *)
(*   SpecEngine - start/stop, reader, writer, send queue, backoff          *)
(*   SpecTasks  - load/unload, task spawning and cancellation              *)
(***************************************************************************)
EXTENDS Integers, Sequences, FiniteSets, TLC

VARIABLES
    \* ---- rate gate (AsyncRateLimiter) ----
    now,            \* time.monotonic(), in ticks
    max_messages,   \* AsyncRateLimiter.max_messages
    per_seconds,    \* AsyncRateLimiter.per_seconds, in ticks
    events,         \* AsyncRateLimiter._events (deque of admission times)
    lock_holder,    \* owner of AsyncRateLimiter._lock, or "none"
    lock_waiters,   \* FIFO of callers blocked on _lock
    acq_pc,         \* per caller: position inside acquire()
    wake_at,        \* per caller: time at which its asyncio.sleep is due
    completions,    \* history: the times at which acquire() calls returned
    call_seq,       \* history: the callers inside acquire(), in call order
    \* ---- identity, builtins and the config file ----
    nickname,       \* IRCClient.nickname
    owner_records,  \* IRCClient._owner_records: lowercased nick -> OwnerRecord
    channels,       \* IRCClient.channels (config["channels"] mirrors it)
    disk,           \* the config file: [owner_nicks, channels]
    write_failed,   \* history: a config write has failed since process start
    last_msg,       \* history: the PRIVMSG handled last, or NoMsg
    last_out,       \* history: the lines that message handed to send_raw
    \* ---- send path ----
    send_queue,     \* IRCClient._send_queue
    queue_maxsize,  \* its maxsize (0: unbounded, as asyncio.Queue())
    \* ---- connection engine ----
    reconnect_delay,    \* IRCClient.reconnect_delay
    max_backoff,        \* IRCClient.max_backoff
    stop_event,         \* IRCClient._stop_event is set
    backoff,            \* the local backoff of start()
    start_pc,           \* position of the coroutine start()
    cl_pc,              \* per coroutine: position inside _cleanup_connection
    writer_ref,         \* IRCClient._writer_task is not None
    writer_st,          \* state of the writer task created last
    reader_ref,         \* IRCClient._reader_task is not None
    reader_st,          \* state of the reader task created last
    sock,               \* IRCClient.writer: "none", "open" or "closed"
    signals_registered, \* IRCClient._signals_registered
    signal_sent,        \* history: INT or TERM has been delivered
    exit_code,          \* "running", or the exit code of the process
    wait,               \* history: the duration of the backoff sleep begun last
    fails,              \* history: failed connection attempts in a row
    connects,           \* history: connections established
    established,        \* history: a connection was established since the last wait
    in_count,           \* history: inbound lines handled by the reader
    last_in,            \* history: the inbound message handled last
    \* ---- handler registry ----
    plugins,        \* PluginManager._plugins: the loaded plugins
    plugin_tasks,   \* PluginManager._plugin_tasks: plugin -> its task set
    tasks,          \* the tasks made for handlers: state, owner, kind, permit
    sem,            \* free permits of PluginManager._task_semaphore
    commands,       \* PluginManager._commands: name -> CommandSpec
    plugin_commands,\* PluginManager._plugin_commands: plugin -> its names
    last_reg,       \* history: the register_command call made last, or NoReg
    \* ---- inbound events and the environment ----
    line_in,        \* history: the inbound line handled last, or NONE
    env_channels,   \* the CHANNELS environment override, or NONE
    ignored_nicks,  \* IRCClient.ignored_nicks, set by the ignore plugin
    config_in,      \* the mapping that yaml.safe_load read from the config file
    load_result,    \* history: how run_bot's loading of it ended, or NoResult
    bot_config,     \* bot.config, the mapping plugin defaults are merged into
    file_config,    \* the mapping the config file holds for plugin settings
    merge_log,      \* history: the merge of defaults made last, or NoMerge
    join_run,       \* the run of _join_initial_channels: position and history
    \* ---- the config file beyond channels and owner_nicks ----
    file_plugins,   \* its plugins section: plugin -> enabled flag, or NONE
    file_form,      \* what the config path holds: "whole" or "empty"
    file_lock,      \* the process holding <config>.lock, or NONE
    cfg_pc,         \* per process: position inside its write of the file
    cfg_op,         \* per process: the write it is making
    cfg_data,       \* per process: the document it read
    disabled_plugins,   \* PluginManager._disabled_plugins
    known_plugins       \* PluginManager._known_plugins

gate_vars == <<now, max_messages, per_seconds, events, lock_holder,
               lock_waiters, acq_pc, wake_at, completions, call_seq>>

owner_vars == <<nickname, owner_records, channels, disk, write_failed,
                last_msg, last_out>>

send_vars == <<send_queue, queue_maxsize>>

eng_vars == <<reconnect_delay, max_backoff, stop_event, backoff, start_pc,
              cl_pc, writer_ref, writer_st, reader_ref, reader_st, sock,
              signals_registered, signal_sent, exit_code, wait, fails,
              connects, established, in_count, last_in>>

task_vars == <<plugins, plugin_tasks, tasks, sem>>

reg_vars == <<commands, plugin_commands, last_reg>>

event_vars == <<line_in, env_channels, ignored_nicks, config_in, load_result,
                bot_config, file_config, merge_log, join_run>>

file_vars == <<file_plugins, file_form, file_lock, cfg_pc, cfg_op, cfg_data,
               disabled_plugins, known_plugins>>

ext_vars == <<reg_vars, event_vars, file_vars>>

vars == <<gate_vars, owner_vars, send_vars, eng_vars, task_vars, ext_vars>>

---------------------------------------------------------------------------
(* Bounds of the model *)

MaxTime == 4        \* the clock stops advancing here
MaxAcquires == 4    \* acquire() calls per behaviour
MaxRateCount == 2   \* max_messages is drawn from 1..MaxRateCount
MaxRateWindow == 2  \* per_seconds is drawn from 1..MaxRateWindow

MaxFailures == 5    \* failed connection attempts in a row
MaxConnects == 2    \* established connections per behaviour
MaxTasks == 3       \* tasks made for handlers per behaviour
MaxConcurrentTasks == 2  \* _max_concurrent_tasks = 100, scaled down
HANDLER_TIMEOUT_SECS == 2  \* HANDLER_TIMEOUT_SECS = 10, scaled down
MaxAge == 4         \* the running time of a task is counted up to here
MaxInbound == 2     \* inbound lines handled per behaviour

Callers == {"c1", "c2", "c3"}

\* source prefixes of inbound PRIVMSGs
OwnerPrefixes ==
    {"op!o@h1", "Op!~O@H1", "op!x@h2", "eve!o@h1", "op!o", "op"}

\* first parameters of inbound PRIVMSGs: the bot's nick (a query), a channel
Targets == {"me", "#a"}

\* trailing texts of inbound PRIVMSGs
OwnerTexts ==
    {".auth pw", ".auth no", ".say #a hi", ".Join #b", ".part #A", "hi"}

---------------------------------------------------------------------------
(* AsyncRateLimiter (core/utils.py) *)

\* the loop `while self._events and now - self._events[0] > self.per_seconds:
\*              self._events.popleft()`
RECURSIVE Prune(_, _, _)
Prune(ev, t, w) ==
    IF ev # <<>> /\ t - Head(ev) > w THEN Prune(Tail(ev), t, w) ELSE ev

\* the sequence seq without its entries equal to c
Without(seq, c) == SelectSeq(seq, LAMBDA x : x # c)

\* the callers inside acquire() once c is among them
Called(c) ==
    IF \E i \in DOMAIN call_seq : call_seq[i] = c THEN call_seq
    ELSE Append(call_seq, c)

\* acquire() returns: the lock is released (async with) and the call is done
Complete(c, ev) ==
    /\ events' = ev
    /\ lock_holder' = "none"
    /\ acq_pc' = [acq_pc EXCEPT ![c] = "idle"]
    /\ completions' = Append(completions, now)
    /\ call_seq' = Without(call_seq, c)

\* acquire() after the sleep (or right away when wait_time <= 0): read the
\* clock, prune, and append unconditionally.
AfterSleep(c, ev) ==
    Complete(c, Append(Prune(ev, now, per_seconds), now))

\* acquire() from taking the lock to its first return or suspension.
Section1(c) ==
    LET pruned == Prune(events, now, per_seconds) IN
    IF Len(pruned) < max_messages
    THEN /\ Complete(c, Append(pruned, now))
         /\ UNCHANGED wake_at
    ELSE LET wait_time == per_seconds - (now - Head(pruned)) IN
         IF wait_time > 0
         THEN /\ events' = pruned
              /\ lock_holder' = c
              /\ acq_pc' = [acq_pc EXCEPT ![c] = "sleeping"]
              /\ wake_at' = [wake_at EXCEPT ![c] = now + wait_time]
              /\ call_seq' = Called(c)
              /\ UNCHANGED completions
         ELSE /\ AfterSleep(c, pruned)
              /\ UNCHANGED wake_at

Started == Len(completions) + Cardinality({c \in Callers : acq_pc[c] # "idle"})

\* A caller enters acquire(): asyncio.Lock hands the lock over at once when
\* it is free and nobody waits, otherwise the caller queues up behind the
\* waiters.
AcquireCall(c) ==
    /\ acq_pc[c] = "idle"
    /\ Started < MaxAcquires
    /\ IF lock_holder = "none" /\ lock_waiters = <<>>
       THEN /\ Section1(c)
            /\ UNCHANGED lock_waiters
       ELSE /\ lock_waiters' = Append(lock_waiters, c)
            /\ acq_pc' = [acq_pc EXCEPT ![c] = "waitlock"]
            /\ call_seq' = Append(call_seq, c)
            /\ UNCHANGED <<events, lock_holder, wake_at, completions>>
    /\ UNCHANGED <<now, max_messages, per_seconds>>

\* a lock that wakes the waiter that came last
AcquireGrant_Last(c) ==
    /\ lock_holder = "none"
    /\ lock_waiters # <<>>
    /\ lock_waiters[Len(lock_waiters)] = c
    /\ lock_waiters' = Without(lock_waiters, c)
    /\ Section1(c)
    /\ UNCHANGED <<now, max_messages, per_seconds>>

\* The lock was released: its first waiter is woken and takes it.
AcquireGrant(c) ==
    /\ lock_holder = "none"
    /\ lock_waiters # <<>>
    /\ Head(lock_waiters) = c
    /\ lock_waiters' = Tail(lock_waiters)
    /\ Section1(c)
    /\ UNCHANGED <<now, max_messages, per_seconds>>

\* a cancellation that leaves the lock with the cancelled caller
CancelAcquire_KeepsLock(c) ==
    /\ acq_pc[c] \in {"waitlock", "sleeping"}
    /\ acq_pc' = [acq_pc EXCEPT ![c] = "idle"]
    /\ call_seq' = Without(call_seq, c)
    /\ lock_waiters' = Without(lock_waiters, c)
    /\ UNCHANGED <<now, max_messages, per_seconds, events, lock_holder,
                   wake_at, completions>>

\* The task of caller c is cancelled while it is suspended inside
\* acquire(): CancelledError is raised at its await.  Waiting for the lock
\* (Lock.acquire), the caller leaves the waiters; asleep inside `async
\* with self._lock`, the lock is released on the way out (__aexit__).  The
\* append of line 82 is not reached.
CancelAcquire(c) ==
    /\ acq_pc[c] \in {"waitlock", "sleeping"}
    /\ acq_pc' = [acq_pc EXCEPT ![c] = "idle"]
    /\ call_seq' = Without(call_seq, c)
    /\ lock_waiters' = Without(lock_waiters, c)
    /\ lock_holder' = IF lock_holder = c THEN "none" ELSE lock_holder
    /\ UNCHANGED <<now, max_messages, per_seconds, events, wake_at,
                   completions>>

\* asyncio.sleep(wait_time) is over (possibly late).
AcquireWake(c) ==
    /\ acq_pc[c] = "sleeping"
    /\ now >= wake_at[c]
    /\ AfterSleep(c, events)
    /\ UNCHANGED <<now, max_messages, per_seconds, lock_waiters, wake_at>>

Tick ==
    /\ now < MaxTime
    /\ now' = now + 1
    /\ UNCHANGED <<max_messages, per_seconds, events, lock_holder,
                   lock_waiters, acq_pc, wake_at, completions, call_seq>>

GateInit(n, w) ==
    /\ now = 0
    /\ max_messages = n
    /\ per_seconds = w
    /\ events = <<>>
    /\ lock_holder = "none"
    /\ lock_waiters = <<>>
    /\ acq_pc = [c \in Callers |-> "idle"]
    /\ wake_at = [c \in Callers |-> 0]
    /\ completions = <<>>
    /\ call_seq = <<>>

---------------------------------------------------------------------------
(* Strings.  A Python str is a TLA+ string; Char, SubSeq and \o are the     *)
(* only primitives used on them.                                           *)

\* Python's None
NONE == "<None>"

Char(s, i) == SubSeq(s, i, i)

\* s[i-1:]
Rest(s, i) == SubSeq(s, i, Len(s))

LowerChar(c) ==
    CASE c = "A" -> "a" [] c = "B" -> "b" [] c = "E" -> "e" [] c = "H" -> "h"
      [] c = "I" -> "i" [] c = "J" -> "j" [] c = "M" -> "m" [] c = "N" -> "n"
      [] c = "O" -> "o" [] c = "P" -> "p" [] c = "R" -> "r" [] c = "S" -> "s"
      [] c = "T" -> "t" [] c = "U" -> "u" [] c = "V" -> "v" [] c = "W" -> "w"
      [] c = "X" -> "x" [] c = "Y" -> "y"
      [] OTHER -> c

RECURSIVE LowerRec(_)
LowerRec(s) ==
    IF Len(s) = 0 THEN "" ELSE LowerChar(Char(s, 1)) \o LowerRec(Rest(s, 2))

\* The strings the model lowercases most often, and their lowercase forms
\* computed once.
KnownStrings ==
    {"op", "Op", "eve", "me", "o@h1", "~O@H1", "~o@H1", "~o@h1", "x@h2",
     "#a", "#A", "#b", "#B", "auth", "say", "join", "Join", "part"}

LowerTable == [s \in KnownStrings |-> LowerRec(s)]

\* str.lower()
Lower(s) == IF s \in KnownStrings THEN LowerTable[s] ELSE LowerRec(s)

\* the position of the first ch in s, 0 when there is none
IndexOf(s, ch) ==
    LET I == {i \in 1..Len(s) : Char(s, i) = ch} IN
    IF I = {} THEN 0 ELSE CHOOSE i \in I : \A j \in I : i <= j

\* str.startswith()
StartsWith(s, p) == Len(s) >= Len(p) /\ SubSeq(s, 1, Len(p)) = p

RECURSIVE LStrip(_)
LStrip(s) == IF Len(s) > 0 /\ Char(s, 1) = " " THEN LStrip(Rest(s, 2)) ELSE s

RECURSIVE RStrip(_)
RStrip(s) ==
    IF Len(s) > 0 /\ Char(s, Len(s)) = " "
    THEN RStrip(SubSeq(s, 1, Len(s) - 1)) ELSE s

\* str.strip()
Strip(s) == RStrip(LStrip(s))

RECURSIVE WordsRec(_)
WordsRec(s) ==
    LET t == LStrip(s) IN
    IF Len(t) = 0 THEN <<>>
    ELSE LET k == IndexOf(t, " ") IN
         IF k = 0 THEN <<t>>
         ELSE <<SubSeq(t, 1, k - 1)>> \o WordsRec(Rest(t, k + 1))

\* the command parts of the input texts, computed once
WordsTable == [t \in OwnerTexts |-> WordsRec(Rest(t, 2))]

\* str.split(): the maximal runs of non-blank characters
Words(s) ==
    IF \E t \in OwnerTexts : Rest(t, 2) = s
    THEN WordsTable[CHOOSE t \in OwnerTexts : Rest(t, 2) = s]
    ELSE WordsRec(s)

\* " ".join(seq)
RECURSIVE JoinSp(_)
JoinSp(ws) ==
    IF ws = <<>> THEN ""
    ELSE IF Len(ws) = 1 THEN ws[1]
    ELSE ws[1] \o " " \o JoinSp(Tail(ws))

\* `not x` for an Optional[str]
Falsy(x) == x = NONE \/ x = ""

---------------------------------------------------------------------------
(* OwnerRecord and the identity helpers (core/irc_client.py) *)

\* has_host without the comparison: any recorded host matches
HasHost_AnyHost(hosts, ident_host) == hosts # {}

\* OwnerRecord.has_host
HasHost(hosts, ident_host) ==
    LET candidate == Lower(ident_host)
        at == IndexOf(candidate, "@")
    IN  \/ \E existing \in hosts : Lower(existing) = candidate
        \/ /\ at > 0
           /\ LET ident_part == SubSeq(candidate, 1, at - 1)
                  host_part == Rest(candidate, at + 1)
                  alt_candidate ==
                      IF StartsWith(ident_part, "~")
                      THEN Rest(ident_part, 2) \o "@" \o host_part
                      ELSE "~" \o ident_part \o "@" \o host_part
              IN  \E existing \in hosts : Lower(existing) = alt_candidate

\* add_host without the add
AddHost_Never(hosts, ident_host) == hosts

\* OwnerRecord.add_host: the new host set (unchanged when nothing is added)
AddHost(hosts, ident_host) ==
    LET h == Strip(ident_host) IN
    IF h = "" \/ HasHost(hosts, h) THEN hosts ELSE hosts \cup {h}

\* IRCClient._extract_owner_identity
ExtractIdentity(prefix) ==
    LET b == IndexOf(prefix, "!") IN
    IF b = 0
    THEN [nick |-> IF prefix = "" THEN NONE ELSE prefix, ident_host |-> NONE]
    ELSE LET nick == SubSeq(prefix, 1, b - 1)
             rest == Rest(prefix, b + 1)
             a == IndexOf(rest, "@")
         IN  IF a = 0
             THEN [nick |-> nick, ident_host |-> NONE]
             ELSE LET ident == Strip(SubSeq(rest, 1, a - 1))
                      host == Strip(Rest(rest, a + 1))
                  IN  [nick |-> nick,
                       ident_host |-> IF ident # "" /\ host # ""
                                      THEN ident \o "@" \o host ELSE NONE]

\* the identities of the input prefixes, computed once
IdentityTable == [p \in OwnerPrefixes |-> ExtractIdentity(p)]

ExtractOwnerIdentity(prefix) ==
    IF prefix \in OwnerPrefixes THEN IdentityTable[prefix]
    ELSE ExtractIdentity(prefix)

\* IRCClient._has_owner_access
HasOwnerAccess(records, prefix) ==
    /\ ~Falsy(prefix)
    /\ LET id == ExtractOwnerIdentity(prefix) IN
       /\ ~Falsy(id.nick)
       /\ ~Falsy(id.ident_host)
       /\ Lower(id.nick) \in DOMAIN records
       /\ records[Lower(id.nick)].hosts # {}
       /\ HasHost(records[Lower(id.nick)].hosts, id.ident_host)

\* _authenticate_owner without the comparison of the password
AuthAccepted_AnyPassword(records, prefix, password) ==
    LET id == ExtractOwnerIdentity(prefix) IN
    /\ ~Falsy(id.nick)
    /\ ~Falsy(id.ident_host)
    /\ Lower(id.nick) \in DOMAIN records
    /\ records[Lower(id.nick)].password # NONE

\* IRCClient._authenticate_owner: whether the password is accepted
AuthAccepted(records, prefix, password) ==
    LET id == ExtractOwnerIdentity(prefix) IN
    /\ ~Falsy(id.nick)
    /\ ~Falsy(id.ident_host)
    /\ Lower(id.nick) \in DOMAIN records
    /\ records[Lower(id.nick)].password # NONE
    /\ password = records[Lower(id.nick)].password

\* IRCClient._authenticate_owner: the records after record.add_host
AuthRecords(records, prefix) ==
    LET id == ExtractOwnerIdentity(prefix)
        key == Lower(id.nick)
    IN  [records EXCEPT ![key].hosts = AddHost(@, id.ident_host)]

---------------------------------------------------------------------------
(* The joined-channel list and the config file (core/irc_client.py) *)

\* `any(existing.lower() == channel.lower() for existing in self.channels)`
HasChannel(chs, channel) ==
    \E i \in DOMAIN chs : Lower(chs[i]) = Lower(channel)

\* the normalisation loop of _persist_channels: trim, drop empty names,
\* keep the first of the names that are equal ignoring case
RECURSIVE NormalizeFrom(_, _)
NormalizeFrom(chs, acc) ==
    IF chs = <<>> THEN acc
    ELSE LET channel_name == Strip(Head(chs)) IN
         IF channel_name = "" \/ HasChannel(acc, channel_name)
         THEN NormalizeFrom(Tail(chs), acc)
         ELSE NormalizeFrom(Tail(chs), Append(acc, channel_name))

NormalizeChannels(chs) == NormalizeFrom(chs, <<>>)

\* IRCClient._persist_channels with a config path set.  wok: whether
\* atomic_write_yaml succeeds (a failure is logged and swallowed).
PersistChannels(chs, dsk, wok) ==
    LET normalized_channels == NormalizeChannels(chs)
        existing_channels == [i \in DOMAIN dsk.channels |-> Strip(dsk.channels[i])]
    IN  IF existing_channels = normalized_channels
        THEN [channels |-> normalized_channels, disk |-> dsk, failed |-> FALSE]
        ELSE IF wok
        THEN [channels |-> normalized_channels,
              disk |-> [dsk EXCEPT !.channels = normalized_channels],
              failed |-> FALSE]
        ELSE [channels |-> normalized_channels, disk |-> dsk, failed |-> TRUE]

\* IRCClient._remember_channel
RememberChannel(chs, dsk, channel, wok) ==
    LET c == Strip(channel) IN
    IF c = "" THEN [channels |-> chs, disk |-> dsk, failed |-> FALSE]
    ELSE PersistChannels(IF HasChannel(chs, c) THEN chs ELSE Append(chs, c),
                         dsk, wok)

\* IRCClient._forget_channel
ForgetChannel(chs, dsk, channel, wok) ==
    LET c == Strip(channel)
        Keep(existing) == Lower(existing) # Lower(c)
    IN  IF c = "" THEN [channels |-> chs, disk |-> dsk, failed |-> FALSE]
        ELSE PersistChannels(SelectSeq(chs, Keep), dsk, wok)

\* the entry _persist_owner_records writes for one record: a password is
\* written only when it is non-empty
SerializeOwner(record) ==
    [nick |-> record.nick,
     password |-> IF Falsy(record.password) THEN NONE ELSE record.password,
     hosts |-> record.hosts]

\* IRCClient._persist_owner_records with a config path set
PersistOwnerRecords(records, dsk, wok) ==
    IF wok
    THEN [disk |-> [dsk EXCEPT !.owner_nicks =
                        [k \in DOMAIN records |-> SerializeOwner(records[k])]],
          failed |-> FALSE]
    ELSE [disk |-> dsk, failed |-> TRUE]

\* IRCClient._load_owner_records on entries that pass its validation
LoadOwnerRecords(entries) ==
    [k \in DOMAIN entries |->
        [nick |-> Strip(entries[k].nick),
         password |-> entries[k].password,
         hosts |-> {Strip(h) : h \in entries[k].hosts}]]

---------------------------------------------------------------------------
(* The send queue (core/irc_client.py) *)

\* asyncio.Queue(maxsize=100), scaled down
QUEUE_MAX == 3

\* IRCClient.send_raw: put_nowait, a full queue drops the line
SendRaw(q, maxsize, line) ==
    IF maxsize > 0 /\ Len(q) >= maxsize THEN q ELSE Append(q, line)

RECURSIVE SendAll(_, _, _)
SendAll(q, maxsize, lines) ==
    IF lines = <<>> THEN q
    ELSE SendAll(SendRaw(q, maxsize, Head(lines)), maxsize, Tail(lines))

\* the line IRCClient.privmsg hands to send_raw once both rate gates have
\* admitted it (the gates delay the line, they never change or drop it)
PrivmsgLine(target, text) == "PRIVMSG " \o target \o " :" \o text

---------------------------------------------------------------------------
(* Builtin commands (IRCClient._handle_builtin_commands) *)

\* config "prefix", the command sigil
Sigil == "."

DeniedText == "You do not have permission for that command."

Outcome(out, records, chs, dsk, failed) ==
    [out |-> out, records |-> records, channels |-> chs, disk |-> dsk,
     failed |-> failed]

Reply(out) == Outcome(out, owner_records, channels, disk, FALSE)

\* the auth branch
BuiltinAuth(nick, prefix, reply_target, args, is_private, w1) ==
    IF ~is_private
    THEN Reply(<<PrivmsgLine(reply_target,
                    "Authentication must be sent in a private message.")>>)
    ELSE IF args = <<>>
    THEN Reply(<<PrivmsgLine(nick, "Usage: " \o Sigil \o "auth <password>")>>)
    ELSE IF Falsy(prefix)
    THEN Reply(<<PrivmsgLine(nick, "Authentication failed (missing prefix).")>>)
    ELSE IF AuthAccepted(owner_records, prefix, JoinSp(args))
    THEN LET records == AuthRecords(owner_records, prefix)
             added == records # owner_records
             p == IF added THEN PersistOwnerRecords(records, disk, w1)
                  ELSE [disk |-> disk, failed |-> FALSE]
         IN  Outcome(<<PrivmsgLine(nick,
                         "Authentication successful. Your ident_host: "
                            \o ExtractOwnerIdentity(prefix).ident_host)>>,
                     records, channels, p.disk, p.failed)
    ELSE Reply(<<PrivmsgLine(nick, "Authentication failed.")>>)

\* the say / join / part branch
BuiltinPrivileged(command, prefix, reply_target, args, w1, w2) ==
    IF ~HasOwnerAccess(owner_records, prefix)
    THEN Reply(<<PrivmsgLine(reply_target, DeniedText)>>)
    ELSE IF command = "say"
    THEN IF Len(args) < 2
         THEN Reply(<<PrivmsgLine(reply_target,
                         "Usage: " \o Sigil \o "say <target> <text>")>>)
         ELSE Reply(<<PrivmsgLine(args[1], JoinSp(Tail(args))),
                      PrivmsgLine(reply_target, "Message sent.")>>)
    ELSE IF command = "join"
    THEN IF args = <<>>
         THEN Reply(<<PrivmsgLine(reply_target,
                         "Usage: " \o Sigil \o "join <#channel>")>>)
         ELSE LET r1 == RememberChannel(channels, disk, args[1], w1)
                  r2 == RememberChannel(r1.channels, r1.disk, args[1], w2)
              IN  Outcome(<<"JOIN " \o args[1],
                            PrivmsgLine(reply_target, "Joining " \o args[1])>>,
                          owner_records, r2.channels, r2.disk,
                          r1.failed \/ r2.failed)
    ELSE IF args = <<>>
         THEN Reply(<<PrivmsgLine(reply_target,
                         "Usage: " \o Sigil \o "part <#channel>")>>)
         ELSE LET reason == IF Len(args) > 1 THEN JoinSp(Tail(args)) ELSE ""
                  r1 == ForgetChannel(channels, disk, args[1], w1)
                  r2 == ForgetChannel(r1.channels, r1.disk, args[1], w2)
              IN  Outcome(<<IF reason # ""
                            THEN "PART " \o args[1] \o " :" \o reason
                            ELSE "PART " \o args[1],
                            PrivmsgLine(reply_target, "Parting " \o args[1])>>,
                          owner_records, r2.channels, r2.disk,
                          r1.failed \/ r2.failed)

\* IRCClient._handle_builtin_commands
BuiltinCommands(nick, prefix, channel, text, is_private, w1, w2) ==
    IF ~StartsWith(text, Sigil) THEN Reply(<<>>)
    ELSE LET parts == Words(Strip(Rest(text, Len(Sigil) + 1))) IN
         IF parts = <<>> THEN Reply(<<>>)
         ELSE LET command == Lower(parts[1])
                  args == Tail(parts)
                  reply_target == IF is_private THEN nick ELSE channel
              IN  IF command = "auth"
                  THEN BuiltinAuth(nick, prefix, reply_target, args,
                                   is_private, w1)
                  ELSE IF command \in {"say", "join", "part"}
                  THEN BuiltinPrivileged(command, prefix, reply_target,
                                         args, w1, w2)
                  ELSE Reply(<<>>)

\* `nick = user.split("!", 1)[0]`
NickOf(user) ==
    LET b == IndexOf(user, "!") IN
    IF b = 0 THEN user ELSE SubSeq(user, 1, b - 1)

NoMsg == [prefix |-> NONE, target |-> NONE, text |-> NONE]

---------------------------------------------------------------------------
(* The connection engine: start, stop, _connect_once, _cleanup_connection,
   the reader and the writer task (core/irc_client.py), run_bot (bot.py) *)

Max(a, b) == IF a >= b THEN a ELSE b
Min(a, b) == IF a <= b THEN a ELSE b

\* the coroutines that run _cleanup_connection: start(), the stop() task
\* made by the signal handler, and the stop() in the finally of run_bot
Threads == {"start", "sig", "fin"}

\* (reconnect_delay_secs, max_reconnect_delay_secs) of the config file
BackoffConfigs ==
    { [delay |-> 1, max |-> 8], [delay |-> 0, max |-> 2],
      [delay |-> 4, max |-> 2] }

\* inbound lines as parse_irc_message returns them
Inbound ==
    { [command |-> "PING", trailing |-> "t1"],
      [command |-> "PING", trailing |-> NONE],
      [command |-> "NOTICE", trailing |-> "x"] }

NoLine == [command |-> NONE, trailing |-> NONE]

\* lines that handler tasks hand to send_raw
HandlerLines == {"PRIVMSG #a :x"}

Finished(st) == st \in {"cancelled", "done", "failed"}

\* Task.cancel(): a task that has finished is left alone
CancelTask(st) == IF st = "running" THEN "cancelling" ELSE st

\* the engine state as one record, so that the synchronous part of a
\* coroutine (from one await to the next) is one function application
Eng ==
    [stop_event |-> stop_event, backoff |-> backoff, start_pc |-> start_pc,
     cl_pc |-> cl_pc, writer_ref |-> writer_ref, writer_st |-> writer_st,
     reader_ref |-> reader_ref, reader_st |-> reader_st, sock |-> sock,
     exit_code |-> exit_code, wait |-> wait, established |-> established,
     send_queue |-> send_queue, queue_maxsize |-> queue_maxsize]

SetEng(e) ==
    /\ stop_event' = e.stop_event
    /\ backoff' = e.backoff
    /\ start_pc' = e.start_pc
    /\ cl_pc' = e.cl_pc
    /\ writer_ref' = e.writer_ref
    /\ writer_st' = e.writer_st
    /\ reader_ref' = e.reader_ref
    /\ reader_st' = e.reader_st
    /\ sock' = e.sock
    /\ exit_code' = e.exit_code
    /\ wait' = e.wait
    /\ established' = e.established
    /\ send_queue' = e.send_queue
    /\ queue_maxsize' = e.queue_maxsize
    /\ UNCHANGED <<reconnect_delay, max_backoff>>

\* what the caller th of _cleanup_connection does when the cleanup has
\* returned (ok) or has raised (~ok), up to its next await
AfterCleanup(e, th, ok) ==
    IF th = "start" THEN
        IF ~ok THEN
            \* the exception leaves start(), from the except block or, out
            \* of _connect_once, through the except block's own cleanup
            [e EXCEPT !.start_pc = "failed"]
        ELSE IF e.start_pc = "cleanup_ok" THEN
            \* _connect_once returns
            [e EXCEPT !.backoff = Max(reconnect_delay, 1), !.start_pc = "loop"]
        ELSE IF e.stop_event THEN
            [e EXCEPT !.start_pc = "returned"]
        ELSE
            [e EXCEPT !.start_pc = "sleeping", !.wait = e.backoff]
    ELSE IF th = "sig" THEN
        [e EXCEPT !.cl_pc["sig"] = IF ok THEN "done" ELSE "raised"]
    ELSE
        \* run_bot's finally is through; asyncio.run returns or raises
        [e EXCEPT !.exit_code =
            IF ok /\ e.start_pc = "returned" THEN "0" ELSE "1"]

\* _cleanup_connection from `self.reader = None` to its end
CleanupEnd(e, th) ==
    AfterCleanup([e EXCEPT !.sock = "none", !.writer_ref = FALSE,
                           !.reader_ref = FALSE, !.send_queue = <<>>,
                           !.queue_maxsize = 0, !.cl_pc[th] = "idle"],
                 th, TRUE)

\* _cleanup_connection from `if self.writer:`
CleanupClose(e, th) ==
    IF e.sock # "none"
    THEN [e EXCEPT !.sock = "closed", !.cl_pc[th] = "closing"]
    ELSE CleanupEnd(e, th)

\* the end of `await self._reader_task` inside _cleanup_connection: only
\* CancelledError is suppressed
CleanupReaderAwaited(e, th) ==
    IF e.reader_st = "failed"
    THEN AfterCleanup([e EXCEPT !.cl_pc[th] = "idle"], th, FALSE)
    ELSE CleanupClose(e, th)

\* _cleanup_connection from `if self._reader_task:`
CleanupReader(e, th) ==
    IF ~e.reader_ref THEN CleanupClose(e, th)
    ELSE LET e1 == [e EXCEPT !.reader_st = CancelTask(@)] IN
         IF Finished(e1.reader_st)
         THEN CleanupReaderAwaited(e1, th)
         ELSE [e1 EXCEPT !.cl_pc[th] = "await_reader"]

\* _cleanup_connection from its first line
CleanupConnection(e, th) ==
    IF ~e.writer_ref THEN CleanupReader(e, th)
    ELSE LET e1 == [e EXCEPT !.writer_st = CancelTask(@)] IN
         IF Finished(e1.writer_st)
         THEN CleanupReader(e1, th)
         ELSE [e1 EXCEPT !.cl_pc[th] = "await_writer"]

\* IRCClient.stop
Stop(e, th) == CleanupConnection([e EXCEPT !.stop_event = TRUE], th)

EngHistUnchanged ==
    UNCHANGED <<signals_registered, signal_sent, fails, connects, in_count,
                last_in>>

\* run_bot calls start(): `backoff = max(self.reconnect_delay, 1)`
StartCall ==
    /\ exit_code = "running"
    /\ start_pc = "init"
    /\ SetEng([Eng EXCEPT !.backoff = Max(reconnect_delay, 1),
                          !.start_pc = "loop"])
    /\ EngHistUnchanged

\* the loop of start() entered again without the test of the stop flag
LoopTest_NoStopTest ==
    /\ exit_code = "running"
    /\ start_pc = "loop"
    /\ SetEng([Eng EXCEPT !.start_pc = "dialing"])
    /\ EngHistUnchanged

\* `while not self._stop_event.is_set()`, then _connect_once up to
\* `await asyncio.open_connection`
LoopTest ==
    /\ exit_code = "running"
    /\ start_pc = "loop"
    /\ SetEng([Eng EXCEPT !.start_pc =
                  IF stop_event THEN "returned" ELSE "dialing"])
    /\ EngHistUnchanged

\* the state of a reader or writer task once it has run up to its first
\* await: `while not self._stop_event.is_set()`
TaskStarted(e) == IF e.stop_event THEN "done" ELSE "running"

\* open_connection succeeds: _connect_once up to `await self._reader_task`
DialOk ==
    /\ exit_code = "running"
    /\ start_pc = "dialing"
    /\ connects < MaxConnects
    /\ SetEng([Eng EXCEPT
          !.sock = "open",
          !.send_queue = SendAll(send_queue, queue_maxsize,
                                 <<"NICK me", "USER u 0 * :r">>),
          !.writer_ref = TRUE, !.writer_st = TaskStarted(Eng),
          !.reader_ref = TRUE, !.reader_st = TaskStarted(Eng),
          !.established = TRUE,
          !.start_pc = "await_reader"])
    /\ signals_registered' = TRUE
    /\ connects' = connects + 1
    /\ fails' = 0
    /\ UNCHANGED <<signal_sent, in_count, last_in>>

\* open_connection raises: the except block of start() up to its next await
DialFail ==
    /\ exit_code = "running"
    /\ start_pc = "dialing"
    /\ fails < MaxFailures
    /\ SetEng(CleanupConnection([Eng EXCEPT !.start_pc = "cleanup_exc"],
                                "start"))
    /\ fails' = fails + 1
    /\ UNCHANGED <<signals_registered, signal_sent, connects, in_count,
                   last_in>>

\* `await self._reader_task` in _connect_once ends with the reader task
ReaderAwaited ==
    /\ exit_code = "running"
    /\ start_pc = "await_reader"
    /\ Finished(reader_st)
    /\ SetEng(IF reader_st = "cancelled"
              THEN [Eng EXCEPT !.start_pc = "cancelled"]
              ELSE CleanupConnection(
                      [Eng EXCEPT !.start_pc =
                          IF reader_st = "done" THEN "cleanup_ok"
                          ELSE "cleanup_exc"],
                      "start"))
    /\ EngHistUnchanged

\* asyncio.sleep(backoff) is over: `backoff = min(backoff * 2, max_backoff)`
SleepDone ==
    /\ exit_code = "running"
    /\ start_pc = "sleeping"
    /\ SetEng([Eng EXCEPT !.backoff = Min(backoff * 2, max_backoff),
                          !.start_pc = "loop",
                          !.established = FALSE])
    /\ EngHistUnchanged

\* IRCClient._handle_message
HandleMessage(e, m) ==
    IF m.command = "PING"
    THEN [e EXCEPT !.send_queue =
             SendRaw(e.send_queue, e.queue_maxsize,
                     "PONG :" \o (IF Falsy(m.trailing) THEN "server"
                                  ELSE m.trailing))]
    ELSE e

\* one round of _reader_loop: a line arrives and is handled, then the loop
\* condition is tested
ReaderRecv ==
    /\ exit_code = "running"
    /\ reader_st = "running"
    /\ in_count < MaxInbound
    /\ \E m \in Inbound :
          /\ SetEng([HandleMessage(Eng, m) EXCEPT
                        !.reader_st = TaskStarted(Eng)])
          /\ last_in' = m
    /\ in_count' = in_count + 1
    /\ UNCHANGED <<signals_registered, signal_sent, fails, connects>>

\* readline returns b"": the server closed the connection
ReaderEOF ==
    /\ exit_code = "running"
    /\ reader_st = "running"
    /\ SetEng([Eng EXCEPT !.reader_st = "done"])
    /\ EngHistUnchanged

\* readline raises (connection reset)
ReaderError ==
    /\ exit_code = "running"
    /\ reader_st = "running"
    /\ SetEng([Eng EXCEPT !.reader_st = "failed"])
    /\ EngHistUnchanged

\* the CancelledError is thrown into the reader task
ReaderCancelled ==
    /\ exit_code = "running"
    /\ reader_st = "cancelling"
    /\ SetEng([Eng EXCEPT !.reader_st = "cancelled"])
    /\ EngHistUnchanged

\* the CancelledError is thrown into the writer task
WriterCancelled ==
    /\ exit_code = "running"
    /\ writer_st = "cancelling"
    /\ SetEng([Eng EXCEPT !.writer_st = "cancelled"])
    /\ EngHistUnchanged

\* one round of _writer_loop: the next line is written and drained
WriterWrite ==
    /\ exit_code = "running"
    /\ writer_st = "running"
    /\ send_queue # <<>>
    /\ SetEng([Eng EXCEPT !.send_queue = Tail(send_queue),
                          !.writer_st = TaskStarted(Eng)])
    /\ EngHistUnchanged

\* drain raises ConnectionError: the writer loop breaks
WriterLost ==
    /\ exit_code = "running"
    /\ writer_st = "running"
    /\ send_queue # <<>>
    /\ SetEng([Eng EXCEPT !.send_queue = Tail(send_queue),
                          !.writer_st = "done"])
    /\ EngHistUnchanged

\* INT or TERM arrives: the handler registered by _connect_once makes a task
\* that runs stop()
Signal ==
    /\ exit_code = "running"
    /\ signals_registered
    /\ ~signal_sent
    /\ SetEng(Stop(Eng, "sig"))
    /\ signal_sent' = TRUE
    /\ UNCHANGED <<signals_registered, fails, connects, in_count, last_in>>

\* a coroutine inside _cleanup_connection resumes after its await
CleanupResume(th) ==
    /\ exit_code = "running"
    /\ \/ /\ cl_pc[th] = "await_writer"
          /\ Finished(writer_st)
          /\ SetEng(CleanupReader(Eng, th))
       \/ /\ cl_pc[th] = "await_reader"
          /\ Finished(reader_st)
          /\ SetEng(CleanupReaderAwaited(Eng, th))
       \/ /\ cl_pc[th] = "closing"
          /\ SetEng(CleanupEnd(Eng, th))
    /\ EngHistUnchanged

\* start() has returned or raised: the finally of run_bot calls stop()
RunBotFinally ==
    /\ exit_code = "running"
    /\ start_pc \in {"returned", "cancelled", "failed"}
    /\ cl_pc["fin"] = "idle"
    /\ SetEng(Stop(Eng, "fin"))
    /\ EngHistUnchanged

\* a handler task calls send_raw
SendRawCall ==
    /\ exit_code = "running"
    /\ Len(send_queue) <= QUEUE_MAX
    /\ \E line \in HandlerLines :
          SetEng([Eng EXCEPT !.send_queue =
                     SendRaw(send_queue, queue_maxsize, line)])
    /\ EngHistUnchanged

\* IRCClient.__init__ with the timing knobs of cfg
EngInit(cfg) ==
    /\ reconnect_delay = cfg.delay
    /\ max_backoff = cfg.max
    /\ stop_event = FALSE
    /\ backoff = 0
    /\ start_pc = "init"
    /\ cl_pc = [th \in Threads |-> "idle"]
    /\ writer_ref = FALSE
    /\ writer_st = "none"
    /\ reader_ref = FALSE
    /\ reader_st = "none"
    /\ sock = "none"
    /\ signals_registered = FALSE
    /\ signal_sent = FALSE
    /\ exit_code = "running"
    /\ wait = 0
    /\ fails = 0
    /\ connects = 0
    /\ established = FALSE
    /\ in_count = 0
    /\ last_in = NoLine

---------------------------------------------------------------------------
(* The handler registry: load, unload, task spawning
   (core/plugin_manager.py) *)

Plugins == {"p1", "p2"}

TaskIds == 1..MaxTasks

NoTask ==
    [st |-> "free", owner |-> NONE, kind |-> NONE, name |-> NONE,
     permit |-> FALSE, age |-> 0]

FreeIds(ts) == {t \in TaskIds : ts[t].st = "free"}

\* Task.cancel() on a task that is not done
CancelHandlerTask(task) ==
    IF task.st \in {"pending", "running"}
    THEN [task EXCEPT !.st = "cancelling"]
    ELSE task

\* the callbacks the plugin modules define
PluginCallbacks ==
    [p \in Plugins |->
        IF p = "p1"
        THEN {"on_message", "on_join", "on_part", "on_nick", "on_kick",
              "on_quit"}
        ELSE {"on_message", "on_join"}]

\* PluginManager._spawn_task: the task is created for the coroutine and
\* added to the task set of plugin_name.  kind is "handler" for a coroutine
\* made by _run_handler, "command" for the coroutine a command handler
\* returned.
SpawnKind(ts, pt, plugin_name, task_name, kind) ==
    LET t == CHOOSE x \in FreeIds(ts) : \A y \in FreeIds(ts) : x <= y IN
    [tasks |-> [ts EXCEPT ![t] = [NoTask EXCEPT !.st = "pending",
                                                !.owner = plugin_name,
                                                !.kind = kind,
                                                !.name = task_name]],
     plugin_tasks |-> [pt EXCEPT ![plugin_name] = @ \cup {t}]]

\* _spawn_task(name, self._run_handler(handler, name, handler_name, ...))
SpawnTask(ts, pt, plugin_name, task_name) ==
    SpawnKind(ts, pt, plugin_name, task_name, "handler")

\* the loop of dispatch_message, dispatch_join and dispatch_part: one task
\* per loaded plugin whose module has a callable handler_name
RECURSIVE DispatchTo(_, _, _, _)
DispatchTo(ts, pt, loaded, handler_name) ==
    IF loaded = {} THEN [tasks |-> ts, plugin_tasks |-> pt]
    ELSE LET name == CHOOSE p \in loaded : TRUE IN
         IF handler_name \in PluginCallbacks[name]
         THEN LET r == SpawnTask(ts, pt, name, handler_name)
              IN  DispatchTo(r.tasks, r.plugin_tasks, loaded \ {name},
                             handler_name)
         ELSE DispatchTo(ts, pt, loaded \ {name}, handler_name)

\* PluginManager.dispatch_message
DispatchMessage(ts, pt, loaded) == DispatchTo(ts, pt, loaded, "on_message")

\* PluginManager.dispatch_join
DispatchJoin(ts, pt, loaded) == DispatchTo(ts, pt, loaded, "on_join")

\* PluginManager.dispatch_part
DispatchPart(ts, pt, loaded) == DispatchTo(ts, pt, loaded, "on_part")

\* the done callback of _spawn_task: `tasks.discard(t)`
Discard(pt, t) == [p \in Plugins |-> pt[p] \ {t}]

\* a task made by _spawn_task that starts its handler without waiting for a
\* permit of the semaphore
TaskStart_NoSemaphore(t) ==
    /\ exit_code = "running"
    /\ tasks[t].st = "pending"
    /\ tasks' = [tasks EXCEPT ![t].st = "running",
                              ![t].permit = (tasks[t].kind = "handler")]
    /\ sem' = IF tasks[t].kind = "handler" THEN sem - 1 ELSE sem
    /\ UNCHANGED <<plugins, plugin_tasks>>

\* a task made by _spawn_task runs up to its first suspension: a coroutine
\* of _run_handler enters `async with self._task_semaphore` and calls the
\* handler under wait_for; the coroutine of a command handler runs as it is
TaskStart(t) ==
    /\ exit_code = "running"
    /\ tasks[t].st = "pending"
    /\ IF tasks[t].kind = "handler"
       THEN /\ sem > 0
            /\ tasks' = [tasks EXCEPT ![t].st = "running", ![t].permit = TRUE]
            /\ sem' = sem - 1
       ELSE /\ tasks' = [tasks EXCEPT ![t].st = "running"]
            /\ sem' = sem
    /\ UNCHANGED <<plugins, plugin_tasks>>

\* a running handler starts a task of its own, as on_message of
\* scripts/_template.py does: create_task(bot.privmsg(...))
HandlerCreateChild(t) ==
    /\ exit_code = "running"
    /\ tasks[t].st = "running"
    /\ tasks[t].kind = "handler"
    /\ FreeIds(tasks) # {}
    /\ LET c == CHOOSE x \in FreeIds(tasks) : \A y \in FreeIds(tasks) : x <= y
       IN  tasks' = [tasks EXCEPT ![c] = [NoTask EXCEPT
                                             !.st = "running",
                                             !.owner = tasks[t].owner,
                                             !.kind = "child",
                                             !.name = "privmsg"]]
    /\ UNCHANGED <<plugins, plugin_tasks, sem>>

\* the handler returns: _run_handler leaves the semaphore, the done
\* callback takes the task out of its set
TaskFinish(t) ==
    /\ exit_code = "running"
    /\ tasks[t].st = "running"
    /\ tasks[t].kind \in {"handler", "command"}
    /\ tasks' = [tasks EXCEPT ![t] = [@ EXCEPT !.st = "done",
                                               !.permit = FALSE,
                                               !.age = 0]]
    /\ sem' = IF tasks[t].permit THEN sem + 1 ELSE sem
    /\ plugin_tasks' = Discard(plugin_tasks, t)
    /\ UNCHANGED plugins

\* a second passes: every handler and command coroutine that is running
\* has run a second longer.  A wait_for of _run_handler whose timeout is due
\* fires before the clock moves on.
TaskTick ==
    /\ exit_code = "running"
    /\ \A t \in TaskIds :
          tasks[t].st = "running" /\ tasks[t].kind = "handler"
          => tasks[t].age < HANDLER_TIMEOUT_SECS
    /\ \E t \in TaskIds :
          /\ tasks[t].st = "running"
          /\ tasks[t].kind \in {"handler", "command"}
          /\ tasks[t].age < MaxAge
    /\ tasks' = [t \in TaskIds |->
                    IF tasks[t].st = "running"
                       /\ tasks[t].kind \in {"handler", "command"}
                    THEN [tasks[t] EXCEPT !.age = Min(@ + 1, MaxAge)]
                    ELSE tasks[t]]
    /\ UNCHANGED <<plugins, plugin_tasks, sem>>

\* asyncio.wait_for of _run_handler cancels the handler after
\* HANDLER_TIMEOUT_SECS; the TimeoutError is logged, the semaphore is left
\* and the task ends
TaskTimeout(t) ==
    /\ exit_code = "running"
    /\ tasks[t].st = "running"
    /\ tasks[t].kind = "handler"
    /\ tasks[t].age = HANDLER_TIMEOUT_SECS
    /\ tasks' = [tasks EXCEPT ![t] = [@ EXCEPT !.st = "done",
                                               !.permit = FALSE]]
    /\ sem' = sem + 1
    /\ plugin_tasks' = Discard(plugin_tasks, t)
    /\ UNCHANGED plugins

\* the CancelledError is thrown into a task whose cancellation was requested
TaskCancelled(t) ==
    /\ exit_code = "running"
    /\ tasks[t].st = "cancelling"
    /\ tasks' = [tasks EXCEPT ![t] = [@ EXCEPT !.st = "cancelled",
                                               !.permit = FALSE,
                                               !.age = 0]]
    /\ sem' = IF tasks[t].permit THEN sem + 1 ELSE sem
    /\ plugin_tasks' = Discard(plugin_tasks, t)
    /\ UNCHANGED plugins

\* the task a handler started itself gets through both rate gates of
\* privmsg and hands its line to send_raw
ChildFinish(t) ==
    /\ exit_code = "running"
    /\ tasks[t].st = "running"
    /\ tasks[t].kind = "child"
    /\ tasks' = [tasks EXCEPT ![t].st = "done"]
    /\ send_queue' = SendRaw(send_queue, queue_maxsize,
                             PrivmsgLine("#a", "Example plugin response"))
    /\ UNCHANGED <<plugins, plugin_tasks, sem, queue_maxsize>>

\* the names of a registration: the lowercased command and the lowercased
\* non-empty aliases
CommandNames(command, aliases) ==
    {Lower(command)} \cup
    {Lower(aliases[i]) : i \in {j \in DOMAIN aliases : aliases[j] # ""}}

\* the conflict test without the aliases: only the primary name is looked up
NameConflict_PrimaryOnly(cmds, command, aliases) ==
    Lower(command) \in DOMAIN cmds

\* the conflict test of register_command: some name is already in _commands
NameConflict(cmds, command, aliases) ==
    \E name \in CommandNames(command, aliases) : name \in DOMAIN cmds

\* PluginManager.register_command; ok is FALSE when it raised ValueError
RegisterResult(cmds, pc, plugin_name, command, aliases, handler) ==
    IF command = "" \/ NameConflict(cmds, command, aliases)
    THEN [ok |-> FALSE, commands |-> cmds, plugin_commands |-> pc]
    ELSE LET names == CommandNames(command, aliases)
             spec == [plugin |-> plugin_name, name |-> Lower(command),
                      aliases |-> names, handler |-> handler]
         IN  [ok |-> TRUE,
              commands |-> [n \in DOMAIN cmds \cup names |->
                               IF n \in names THEN spec ELSE cmds[n]],
              plugin_commands |-> [pc EXCEPT ![plugin_name] = @ \cup names]]

NoReg == [plugin |-> NONE, command |-> NONE, aliases |-> <<>>, ok |-> FALSE]

\* a plugin calls bot.plugin_manager.register_command
RegisterCommand(plugin_name, command, aliases, handler) ==
    /\ exit_code = "running"
    /\ \E r \in {RegisterResult(commands, plugin_commands, plugin_name,
                                 command, aliases, handler)} :
          /\ commands' = r.commands
          /\ plugin_commands' = r.plugin_commands
          /\ last_reg' = [plugin |-> plugin_name, command |-> command,
                          aliases |-> aliases, ok |-> r.ok]

\* the caller of register_command goes on
RegNext ==
    /\ exit_code = "running"
    /\ last_reg # NoReg
    /\ last_reg' = NoReg
    /\ UNCHANGED <<commands, plugin_commands>>

\* the commands _handle_builtin_commands answers itself
BuiltinNames ==
    {"auth", "whoami", "plugins", "load", "unload", "reload", "say", "join",
     "part", "health", "status", "help"}

\* whether _handle_builtin_commands returns from the branch of a builtin:
\* every branch does, except say, join and part once they have acted, which
\* have no return and go on to the tests that follow
BuiltinReturns(command, prefix, args) ==
    IF command \in {"say", "join", "part"}
    THEN \/ ~HasOwnerAccess(owner_records, prefix)
         \/ command = "say" /\ Len(args) < 2
         \/ command # "say" /\ args = <<>>
    ELSE command \in BuiltinNames

\* the end of _handle_builtin_commands when no branch has returned:
\* PluginManager.dispatch_registered_command, which hands the coroutine a
\* command handler returns to _spawn_task
DispatchRegisteredCommand(ts, pt, cmds, prefix, text) ==
    LET parts == IF StartsWith(text, Sigil)
                 THEN Words(Strip(Rest(text, Len(Sigil) + 1))) ELSE <<>>
        command == IF parts = <<>> THEN "" ELSE Lower(parts[1])
    IN  IF parts # <<>> /\ ~BuiltinReturns(command, prefix, Tail(parts))
           /\ prefix # ""
           /\ command \in DOMAIN cmds /\ cmds[command].handler = "coro"
        THEN SpawnKind(ts, pt, cmds[command].plugin, cmds[command].name,
                       "command")
        ELSE [tasks |-> ts, plugin_tasks |-> pt]

\* an unregistration that takes out the primary names of the plugin and
\* leaves their aliases in the map
UnregisterCommandsForPlugin_PrimaryOnly(cmds, pc, plugin_name) ==
    LET gone == {n \in pc[plugin_name] : n \in DOMAIN cmds /\ cmds[n].name = n}
    IN  [commands |-> [n \in DOMAIN cmds \ gone |-> cmds[n]],
         plugin_commands |-> [pc EXCEPT ![plugin_name] = {}]]

\* PluginManager._unregister_commands_for_plugin
UnregisterCommandsForPlugin(cmds, pc, plugin_name) ==
    [commands |-> [n \in DOMAIN cmds \ pc[plugin_name] |-> cmds[n]],
     plugin_commands |-> [pc EXCEPT ![plugin_name] = {}]]

\* one register_command call of a plugin module
Registration(command, aliases, handler) ==
    [command |-> command, aliases |-> aliases, handler |-> handler]

\* on_load of a module that makes the register_command calls regs in
\* order: a ValueError of register_command leaves on_load at once; raises
\* tells whether on_load raises when the calls are through
RECURSIVE OnLoad(_, _, _, _, _)
OnLoad(cmds, pc, plugin_name, regs, raises) ==
    IF regs = <<>>
    THEN [ok |-> ~raises, commands |-> cmds, plugin_commands |-> pc]
    ELSE LET r == RegisterResult(cmds, pc, plugin_name, Head(regs).command,
                                 Head(regs).aliases, Head(regs).handler)
         IN  IF r.ok
             THEN OnLoad(r.commands, r.plugin_commands, plugin_name,
                         Tail(regs), raises)
             ELSE [ok |-> FALSE, commands |-> cmds, plugin_commands |-> pc]

\* the registry and the enabled flags of the config file as one record
Registry ==
    [plugins |-> plugins, known |-> known_plugins,
     disabled |-> disabled_plugins, commands |-> commands,
     plugin_commands |-> plugin_commands, file_plugins |-> file_plugins]

SetRegistry(st) ==
    /\ plugins' = st.plugins
    /\ known_plugins' = st.known
    /\ disabled_plugins' = st.disabled
    /\ commands' = st.commands
    /\ plugin_commands' = st.plugin_commands
    /\ file_plugins' = st.file_plugins

\* PluginManager.load of a plugin that is not loaded and whose on_load
\* makes the calls regs: the module is imported and on_load is run; when it
\* returns the plugin is loaded, known, not disabled, and its enabled flag
\* is set in the config file; when it raises, load raises and nothing is
\* taken back
Loaded(st, p, regs, raises) ==
    LET r == OnLoad(st.commands, st.plugin_commands, p, regs, raises) IN
    IF r.ok
    THEN [st EXCEPT !.commands = r.commands,
                    !.plugin_commands = r.plugin_commands,
                    !.plugins = @ \cup {p},
                    !.known = @ \cup {p},
                    !.disabled = @ \ {p},
                    !.file_plugins[p] = "true"]
    ELSE [st EXCEPT !.commands = r.commands,
                    !.plugin_commands = r.plugin_commands]

\* PluginManager.unload of a loaded plugin, its part on the registry: the
\* commands of the plugin are unregistered, the plugin is disabled and its
\* enabled flag is cleared in the config file
Unloaded(st, p) ==
    LET u == UnregisterCommandsForPlugin(st.commands, st.plugin_commands, p)
    IN  [st EXCEPT !.plugins = @ \ {p},
                   !.commands = u.commands,
                   !.plugin_commands = u.plugin_commands,
                   !.disabled = @ \cup {p},
                   !.file_plugins[p] = "false"]

\* unload cancels the tasks in the task set of the plugin and drops the set
CancelTasksOf(p) ==
    /\ plugin_tasks' = [plugin_tasks EXCEPT ![p] = {}]
    /\ tasks' = [t \in TaskIds |->
                    IF t \in plugin_tasks[p] THEN CancelHandlerTask(tasks[t])
                    ELSE tasks[t]]

LoadWith(p, regs, raises) ==
    /\ exit_code = "running"
    /\ p \notin plugins
    /\ SetRegistry(Loaded(Registry, p, regs, raises))
    /\ UNCHANGED <<plugin_tasks, tasks, sem, last_reg>>
    /\ UNCHANGED <<file_form, file_lock, cfg_pc, cfg_op, cfg_data>>

\* PluginManager.load of a plugin whose on_load registers nothing and
\* returns
Load(p) == LoadWith(p, <<>>, FALSE)

\* PluginManager.unload
Unload(p) ==
    /\ exit_code = "running"
    /\ p \in plugins
    /\ SetRegistry(Unloaded(Registry, p))
    /\ CancelTasksOf(p)
    /\ UNCHANGED <<sem, last_reg>>
    /\ UNCHANGED <<file_form, file_lock, cfg_pc, cfg_op, cfg_data>>

\* PluginManager.reload of a loaded plugin: unload, then load
Reload(p, regs, raises) ==
    /\ exit_code = "running"
    /\ p \in plugins
    /\ SetRegistry(Loaded(Unloaded(Registry, p), p, regs, raises))
    /\ CancelTasksOf(p)
    /\ UNCHANGED <<sem, last_reg>>
    /\ UNCHANGED <<file_form, file_lock, cfg_pc, cfg_op, cfg_data>>

\* the plugin files of the plugin directory, sorted
SortedPlugins == <<"p1", "p2">>

\* the loop of load_all over names: the entry of the plugin is made in the
\* config file when it has none; a disabled plugin is skipped and its flag
\* cleared; the others are loaded, and a load that raises is logged.
\* regs gives the register_command calls of each on_load, failing the
\* plugins whose on_load raises.
RECURSIVE LoadAllFrom(_, _, _, _)
LoadAllFrom(st, names, regs, failing) ==
    IF names = <<>> THEN st
    ELSE LET name == Head(names)
             entered == IF st.file_plugins[name] = NONE
                        THEN [st EXCEPT !.file_plugins[name] =
                                 IF name \in st.disabled THEN "false"
                                 ELSE "true"]
                        ELSE st
             next == IF name \in st.disabled
                     THEN [entered EXCEPT !.file_plugins[name] = "false"]
                     ELSE Loaded(entered, name, regs[name],
                                 name \in failing)
         IN  LoadAllFrom(next, Tail(names), regs, failing)

\* PluginManager.load_all
LoadAll(regs, failing) ==
    /\ exit_code = "running"
    /\ known_plugins = {}
    /\ plugins = {}
    /\ SetRegistry(LoadAllFrom(
          [Registry EXCEPT !.known = Plugins,
                           !.disabled = @ \cap Plugins],
          SortedPlugins, regs, failing))
    /\ UNCHANGED <<plugin_tasks, tasks, sem, last_reg>>
    /\ UNCHANGED <<file_form, file_lock, cfg_pc, cfg_op, cfg_data>>

\* PluginManager.__init__ followed by load_all over the plugins of loaded
TasksInit(loaded) ==
    /\ plugins = loaded
    /\ plugin_tasks = [p \in Plugins |-> {}]
    /\ tasks = [t \in TaskIds |-> NoTask]
    /\ sem = MaxConcurrentTasks

\* the ignore test without the lowercasing of the nick
IsIgnored_CaseSensitive(nick, ignored) == nick \in ignored

\* `nick.lower() in getattr(self, "ignored_nicks", set())`
IsIgnored(nick, ignored) == Lower(nick) \in ignored

\* IRCClient._handle_privmsg for a message with a prefix and a trailing
\* text, and the test of the reader loop that follows it
HandlePrivmsg(m, w1, w2) ==
    LET user == m.prefix
        nick == NickOf(user)
        is_private == Lower(m.target) = Lower(nickname)
        channel == IF is_private THEN nick ELSE m.target
        ignored == IsIgnored(nick, ignored_nicks)
    IN  \E r \in {IF ignored THEN Reply(<<>>)
                  ELSE BuiltinCommands(nick, user, channel, m.text,
                                       is_private, w1, w2)} :
        \E c \in {IF ignored THEN [tasks |-> tasks, plugin_tasks |-> plugin_tasks]
                  ELSE DispatchRegisteredCommand(tasks, plugin_tasks,
                                                 commands, user, m.text)} :
        \E d \in {IF ignored THEN c
                  ELSE DispatchMessage(c.tasks, c.plugin_tasks, plugins)} :
        /\ owner_records' = r.records
        /\ channels' = r.channels
        /\ disk' = r.disk
        /\ write_failed' = (write_failed \/ r.failed)
        /\ last_msg' = m
        /\ last_out' = r.out
        /\ send_queue' = SendAll(send_queue, queue_maxsize, r.out)
        /\ tasks' = d.tasks
        /\ plugin_tasks' = d.plugin_tasks
        /\ reader_st' = TaskStarted(Eng)
        /\ UNCHANGED <<nickname, queue_maxsize, plugins, sem>>
        /\ UNCHANGED <<reconnect_delay, max_backoff, stop_event, backoff,
                       start_pc, cl_pc, writer_ref, writer_st, reader_ref,
                       sock, signals_registered, signal_sent, exit_code, wait,
                       fails, connects, established, in_count, last_in>>

---------------------------------------------------------------------------
(* The config file shared by the processes started on it: the steps of
   IRCClient._persist_channels (core/irc_client.py) and of
   PluginManager._ensure_plugin_entry_in_file (core/plugin_manager.py) *)

\* the processes running on one config file
ConfigWriters == {"bot1", "bot2"}

\* what `yaml.safe_load(handle) or {}` makes of a file without content
EmptyDoc ==
    [channels |-> <<>>, owner_nicks |-> <<>>,
     plugins |-> [p \in Plugins |-> NONE]]

NoOp == [kind |-> "none", channels |-> <<>>, plugin |-> NONE, enabled |-> NONE]

\* the document a read of the config path yields
ConfigDoc ==
    [channels |-> disk.channels, owner_nicks |-> disk.owner_nicks,
     plugins |-> file_plugins]

\* the config path after a write of doc has reached it
PutDoc(doc) ==
    /\ disk' = [channels |-> doc.channels, owner_nicks |-> doc.owner_nicks]
    /\ file_plugins' = doc.plugins
    /\ file_form' = "whole"

\* open(path, "w") truncates the file
Truncate ==
    /\ disk' = [channels |-> <<>>, owner_nicks |-> <<>>]
    /\ file_plugins' = EmptyDoc.plugins
    /\ file_form' = "empty"

\* the position of process w moves to pc
Goto(w, pc) == cfg_pc' = [cfg_pc EXCEPT ![w] = pc]

\* the write of process w is over
Return(w) ==
    /\ cfg_pc' = [cfg_pc EXCEPT ![w] = "idle"]
    /\ cfg_op' = [cfg_op EXCEPT ![w] = NoOp]
    /\ cfg_data' = [cfg_data EXCEPT ![w] = EmptyDoc]

\* _persist_channels is entered with the normalised list chs and reaches
\* `with file_lock(lock_path)`
PersistBegin(w, chs) ==
    /\ cfg_pc[w] = "idle"
    /\ Goto(w, "lock")
    /\ cfg_op' = [cfg_op EXCEPT ![w] = [NoOp EXCEPT !.kind = "channels",
                                                     !.channels = chs]]
    /\ UNCHANGED <<disk, file_plugins, file_form, file_lock, cfg_data>>

\* FileLock is acquired (blocking while another process holds it)
PersistLock(w) ==
    /\ cfg_pc[w] = "lock"
    /\ file_lock = NONE
    /\ file_lock' = w
    /\ Goto(w, "read")
    /\ UNCHANGED <<disk, file_plugins, file_form, cfg_op, cfg_data>>

\* load_yaml_file and the comparison with the stripped entries of the file:
\* equal lists leave the function, and the lock is released
PersistRead(w) ==
    /\ cfg_pc[w] = "read"
    /\ cfg_op[w].kind = "channels"
    /\ LET data == ConfigDoc
           existing_channels ==
               [i \in DOMAIN data.channels |-> Strip(data.channels[i])]
       IN  IF existing_channels = cfg_op[w].channels
           THEN Return(w) /\ file_lock' = NONE
           ELSE /\ Goto(w, "replace")
                /\ cfg_data' = [cfg_data EXCEPT ![w] =
                                   [data EXCEPT !.channels = cfg_op[w].channels]]
                /\ UNCHANGED <<cfg_op, file_lock>>
    /\ UNCHANGED <<disk, file_plugins, file_form>>

\* atomic_write_yaml has written the sibling file; os.replace puts it at the
\* config path and the lock is released
PersistReplace(w) ==
    /\ cfg_pc[w] = "replace"
    /\ PutDoc(cfg_data[w])
    /\ Return(w)
    /\ file_lock' = NONE

\* _ensure_plugin_entry_in_file(plugin_name, enabled, force=True) is entered
PluginEntryBegin(w, plugin_name, enabled) ==
    /\ cfg_pc[w] = "idle"
    /\ Goto(w, "read")
    /\ cfg_op' = [cfg_op EXCEPT ![w] = [NoOp EXCEPT !.kind = "flag",
                                                     !.plugin = plugin_name,
                                                     !.enabled = enabled]]
    /\ UNCHANGED <<disk, file_plugins, file_form, file_lock, cfg_data>>

\* the file is read; with the flag already as desired the function returns
PluginEntryRead(w) ==
    /\ cfg_pc[w] = "read"
    /\ cfg_op[w].kind = "flag"
    /\ LET data == ConfigDoc
           current == data.plugins[cfg_op[w].plugin]
           desired == cfg_op[w].enabled
       IN  IF current = desired
           THEN Return(w)
           ELSE /\ Goto(w, "open")
                /\ cfg_data' = [cfg_data EXCEPT ![w] =
                                   [data EXCEPT !.plugins[cfg_op[w].plugin] =
                                                    desired]]
                /\ UNCHANGED cfg_op
    /\ UNCHANGED <<disk, file_plugins, file_form, file_lock>>

\* `with self._config_path.open("w")`
PluginEntryOpen(w) ==
    /\ cfg_pc[w] = "open"
    /\ Truncate
    /\ Goto(w, "dump")
    /\ UNCHANGED <<file_lock, cfg_op, cfg_data>>

\* yaml.safe_dump(data, handle) and the close of the handle
PluginEntryDump(w) ==
    /\ cfg_pc[w] = "dump"
    /\ PutDoc(cfg_data[w])
    /\ Return(w)
    /\ UNCHANGED file_lock

\* the process is killed inside a write; the lock it holds is released with
\* it, and the process started next begins outside any write
Crash(w) ==
    /\ cfg_pc[w] \in {"read", "replace", "open", "dump"}
    /\ Return(w)
    /\ file_lock' = IF file_lock = w THEN NONE ELSE file_lock
    /\ UNCHANGED <<disk, file_plugins, file_form>>

---------------------------------------------------------------------------
(* Inbound lines: parse_irc_message (core/utils.py) and the router
   IRCClient._handle_message with its event handlers *)

MaxLines == 3       \* inbound lines routed per behaviour

\* the position of the first occurrence of sub in s, 0 when there is none
Find(s, sub) ==
    LET I == {i \in 1..(Len(s) - Len(sub) + 1) :
                 SubSeq(s, i, i + Len(sub) - 1) = sub}
    IN  IF I = {} THEN 0 ELSE CHOOSE i \in I : \A j \in I : i <= j

\* a message that could not be built: parse_irc_message raised
ParseError ==
    [ok |-> FALSE, prefix |-> NONE, command |-> "", params |-> <<>>,
     trailing |-> NONE]

\* parse_irc_message on a line without its line end
ParseIrcMessage(line) ==
    LET has_prefix == StartsWith(line, ":")
        sp == IndexOf(Rest(line, 2), " ")
    IN  IF has_prefix /\ sp = 0
        THEN ParseError     \* `prefix, rest = rest[1:].split(" ", 1)`
        ELSE
        LET prefix == IF has_prefix THEN SubSeq(line, 2, sp) ELSE NONE
            rest1 == IF has_prefix THEN Rest(line, sp + 2) ELSE line
            k == Find(rest1, " :")
            trailing == IF k > 0 THEN Rest(rest1, k + 2) ELSE NONE
            rest2 == IF k > 0 THEN SubSeq(rest1, 1, k - 1) ELSE rest1
            params == WordsRec(rest2)
        IN  [ok |-> TRUE, prefix |-> prefix,
             command |-> IF params # <<>> THEN Head(params) ELSE "",
             params |-> IF params # <<>> THEN Tail(params) ELSE <<>>,
             trailing |-> trailing]

\* lines the server sends, as _reader_loop hands them to parse_irc_message
EventLines ==
    {":me!u@h JOIN :#b", ":x!u@h JOIN #a", ":me!u@h PART #A",
     ":x!u@h PART #a :bye", ":x!u@h NICK :y", ":x!u@h KICK #a me :r",
     ":x!u@h QUIT :bye", ":irc.example", "FOO bar", ":x!u@h KICK #a",
     ":x!u@h PART", "JOIN #a", ":s 001 me :hi", "PING :t1"}

\* the server's replies to a NICK that names a nickname in use
NickLines == {":s 433 * me :in use", ":s 433 * me_ :in use", ":s 433"}

\* the parsed forms of the input lines, computed once
ParseTable == [l \in EventLines \cup NickLines |-> ParseIrcMessage(l)]

\* what handling one message did: ok is FALSE when an exception left the
\* handler; dispatch names the callback handed to the registry
Handled(ok, chs, dsk, failed, nick, out, dispatch) ==
    [ok |-> ok, channels |-> chs, disk |-> dsk, failed |-> failed,
     nickname |-> nick, out |-> out, dispatch |-> dispatch]

Ignored == Handled(TRUE, channels, disk, FALSE, nickname, <<>>, NONE)

\* IRCClient._join_initial_channels: join() for every channel of the list
RECURSIVE JoinInitialChannels(_, _, _, _, _, _)
JoinInitialChannels(todo, chs, dsk, out, failed, wok) ==
    IF todo = <<>> THEN Handled(TRUE, chs, dsk, failed, nickname, out, NONE)
    ELSE LET r == RememberChannel(chs, dsk, Head(todo), wok) IN
         JoinInitialChannels(Tail(todo), r.channels, r.disk,
                             Append(out, "JOIN " \o Head(todo)),
                             failed \/ r.failed, wok)

\* IRCClient._handle_join
HandleJoin(m, wok) ==
    IF m.prefix = NONE THEN Ignored
    ELSE LET channel == IF ~Falsy(m.trailing) THEN m.trailing
                        ELSE IF m.params # <<>> THEN m.params[1] ELSE ""
         IN  IF channel = "" THEN Ignored
             ELSE LET r == IF Lower(NickOf(m.prefix)) = Lower(nickname)
                           THEN RememberChannel(channels, disk, channel, wok)
                           ELSE [channels |-> channels, disk |-> disk,
                                 failed |-> FALSE]
                  IN  Handled(TRUE, r.channels, r.disk, r.failed, nickname,
                              <<>>, "on_join")

\* IRCClient._handle_part
HandlePart(m, wok) ==
    IF m.prefix = NONE \/ m.params = <<>> THEN Ignored
    ELSE LET channel == Strip(m.params[1]) IN
         IF channel = "" THEN Ignored
         ELSE LET r == IF Lower(NickOf(m.prefix)) = Lower(nickname)
                       THEN ForgetChannel(channels, disk, channel, wok)
                       ELSE [channels |-> channels, disk |-> disk,
                             failed |-> FALSE]
              IN  Handled(TRUE, r.channels, r.disk, r.failed, nickname,
                          <<>>, "on_part")

\* IRCClient._handle_nick: PluginManager has no dispatch_nick, the call at
\* its end raises AttributeError
HandleNick(m) ==
    IF m.prefix = NONE THEN Ignored
    ELSE LET new_nick == IF ~Falsy(m.trailing) THEN m.trailing
                         ELSE IF m.params # <<>> THEN m.params[1] ELSE ""
         IN  IF new_nick = "" THEN Ignored
             ELSE Handled(FALSE, channels, disk, FALSE,
                          IF Lower(NickOf(m.prefix)) = Lower(nickname)
                          THEN new_nick ELSE nickname,
                          <<>>, NONE)

\* IRCClient._handle_kick: PluginManager has no dispatch_kick
HandleKick(m, wok) ==
    IF m.prefix = NONE \/ Len(m.params) < 2 THEN Ignored
    ELSE LET r == IF Lower(m.params[2]) = Lower(nickname)
                  THEN ForgetChannel(channels, disk, m.params[1], wok)
                  ELSE [channels |-> channels, disk |-> disk,
                        failed |-> FALSE]
         IN  Handled(FALSE, r.channels, r.disk, r.failed, nickname, <<>>,
                     NONE)

\* IRCClient._handle_quit: PluginManager has no dispatch_quit
HandleQuit(m) ==
    IF m.prefix = NONE THEN Ignored
    ELSE Handled(FALSE, channels, disk, FALSE, nickname, <<>>, NONE)

\* IRCClient._handle_message for every command but PRIVMSG (HandlePrivmsg)
RouteMessage(m, wok) ==
    IF m.command = "PING"
    THEN Handled(TRUE, channels, disk, FALSE, nickname,
                 <<"PONG :" \o (IF Falsy(m.trailing) THEN "server"
                                ELSE m.trailing)>>, NONE)
    ELSE IF m.command = "001"
    THEN JoinInitialChannels(channels, channels, disk, <<>>, FALSE, wok)
    ELSE IF m.command = "433"
    THEN Handled(TRUE, channels, disk, FALSE, nickname \o "_",
                 <<"NICK " \o nickname \o "_">>, NONE)
    ELSE IF m.command = "JOIN" THEN HandleJoin(m, wok)
    ELSE IF m.command = "PART" THEN HandlePart(m, wok)
    ELSE IF m.command = "NICK" THEN HandleNick(m)
    ELSE IF m.command = "KICK" THEN HandleKick(m, wok)
    ELSE IF m.command = "QUIT" THEN HandleQuit(m)
    ELSE Ignored

\* one round of _reader_loop on a line of lines: the line is parsed and
\* routed, then the loop condition is tested; an exception ends the task
RecvLine(lines) ==
    /\ exit_code = "running"
    /\ reader_st = "running"
    /\ in_count < MaxLines
    /\ Cardinality(FreeIds(tasks)) >= Cardinality(plugins)
    /\ \E l \in lines, wok \in BOOLEAN :
       \E m \in {ParseTable[l]} :
       \E r \in {IF m.ok THEN RouteMessage(m, wok)
                 ELSE Handled(FALSE, channels, disk, FALSE, nickname, <<>>,
                              NONE)} :
       \E d \in {IF r.ok /\ r.dispatch # NONE
                 THEN DispatchTo(tasks, plugin_tasks, plugins, r.dispatch)
                 ELSE [tasks |-> tasks, plugin_tasks |-> plugin_tasks]} :
          /\ line_in' = l
          /\ channels' = r.channels
          /\ disk' = r.disk
          /\ write_failed' = (write_failed \/ r.failed)
          /\ nickname' = r.nickname
          /\ send_queue' = SendAll(send_queue, queue_maxsize, r.out)
          /\ tasks' = d.tasks
          /\ plugin_tasks' = d.plugin_tasks
          /\ reader_st' = IF r.ok THEN TaskStarted(Eng) ELSE "failed"
    /\ in_count' = in_count + 1
    /\ UNCHANGED <<owner_records, last_msg, last_out, queue_maxsize, plugins,
                   sem, env_channels, ignored_nicks, config_in, load_result,
                   bot_config, file_config, merge_log, join_run, last_in>>
    /\ UNCHANGED <<reconnect_delay, max_backoff, stop_event, backoff,
                   start_pc, cl_pc, writer_ref, writer_st, reader_ref,
                   sock, signals_registered, signal_sent, exit_code, wait,
                   fails, connects, established>>

---------------------------------------------------------------------------
(* Loading the config file (bot.py, core/utils.py, core/irc_client.py) *)

MaxFaults == 2      \* keys of the mapping that differ from a valid file

\* the required keys of load_config with their types, in the order of the
\* dict literal
Required ==
    << [key |-> "server", type |-> "str"],
       [key |-> "port", type |-> "int"],
       [key |-> "use_tls", type |-> "bool"],
       [key |-> "nickname", type |-> "str"],
       [key |-> "username", type |-> "str"],
       [key |-> "realname", type |-> "str"],
       [key |-> "channels", type |-> "list"],
       [key |-> "prefix", type |-> "str"],
       [key |-> "owner_nicks", type |-> "list"],
       [key |-> "reconnect_delay_secs", type |-> "int"],
       [key |-> "request_timeout_secs", type |-> "int"] >>

RequiredKeys == {Required[i].key : i \in DOMAIN Required}

\* the Python type of a value of the mapping; MISSING: the key is absent
MISSING == "<missing>"

ValueTypes == {"str", "int", "bool", "list", "NoneType"}

\* isinstance(value, expected_type) for a value of type t: bool is a
\* subclass of int
IsInstance_Exact(t, expected_type) == t = expected_type

IsInstance(t, expected_type) ==
    \/ t = expected_type
    \/ t = "bool" /\ expected_type = "int"

\* ', '.join(keys)
RECURSIVE JoinComma(_)
JoinComma(keys) ==
    IF keys = <<>> THEN ""
    ELSE IF Len(keys) = 1 THEN Head(keys)
    ELSE Head(keys) \o ", " \o JoinComma(Tail(keys))

NoResult == [error |-> NONE, text |-> NONE]

Accepted == [error |-> "none", text |-> ""]

Raised(error, text) == [error |-> error, text |-> text]

\* validate_required_keys on the types of the values of a mapping
ValidateRequiredKeys(types, required) ==
    LET missing ==
           SelectSeq([i \in DOMAIN required |-> required[i].key],
                     LAMBDA key : types[key] = MISSING)
        bad == {i \in DOMAIN required :
                   ~IsInstance(types[required[i].key], required[i].type)}
        first == CHOOSE i \in bad : \A j \in bad : i <= j
    IN  IF missing # <<>>
        THEN Raised("KeyError",
                    "Missing required config keys: " \o JoinComma(missing))
        ELSE IF bad # {}
        THEN Raised("TypeError",
                    "Config key '" \o required[first].key
                       \o "' must be of type " \o required[first].type)
        ELSE Accepted

\* the hosts of an owner entry that _load_owner_records keeps
KeptHosts(hosts_field) ==
    {Strip(hosts_field[i]) :
        i \in {j \in DOMAIN hosts_field : Strip(hosts_field[j]) # ""}}

\* IRCClient._load_owner_records, its validation: the entries are looked at
\* in order; seen holds the lowercased nicks of the entries before
RECURSIVE CheckOwnerEntries(_, _)
CheckOwnerEntries(entries, seen) ==
    IF entries = <<>> THEN Accepted
    ELSE LET entry == Head(entries) IN
         IF entry.kind = "str"
         THEN Raised("ValueError",
                     "Owner entries must include at least a password or hosts.")
         ELSE IF entry.kind # "dict"
         THEN CheckOwnerEntries(Tail(entries), seen)
         ELSE IF entry.nick = NONE \/ Strip(entry.nick) = ""
         THEN Raised("ValueError",
                     "Owner entry missing required 'nick' string.")
         ELSE IF KeptHosts(entry.hosts) = {} /\ Falsy(entry.password)
         THEN Raised("ValueError",
                     "Owner '" \o Strip(entry.nick) \o
                     "' must define a password when no hosts are configured.")
         ELSE IF Lower(Strip(entry.nick)) \in seen
         THEN Raised("ValueError",
                     "Duplicate owner nick '" \o Strip(entry.nick) \o
                     "' detected in config.")
         ELSE CheckOwnerEntries(Tail(entries),
                                seen \cup {Lower(Strip(entry.nick))})

\* the records _load_owner_records builds from entries that passed
OwnerRecordsOf(entries) ==
    LET kept == SelectSeq(entries, LAMBDA entry : entry.kind = "dict")
        keys == {Lower(Strip(kept[i].nick)) : i \in DOMAIN kept}
    IN  [k \in keys |->
           LET entry == kept[CHOOSE i \in DOMAIN kept :
                                Lower(Strip(kept[i].nick)) = k]
           IN  [nick |-> Strip(entry.nick),
                password |-> entry.password,
                hosts |-> KeptHosts(entry.hosts)]]

\* run_bot up to the client: load_config, then IRCClient.__init__ with its
\* _load_owner_records
LoadOutcome(cfg) ==
    LET checked == ValidateRequiredKeys(cfg.types, Required) IN
    IF checked # Accepted THEN checked
    ELSE CheckOwnerEntries(cfg.owner_nicks, {})

\* the type load_config requires of key k
TypeOfKey(k) == Required[CHOOSE i \in DOMAIN Required : Required[i].key = k].type

\* a config file that load_config and the client accept
ValidConfig ==
    [types |-> [k \in RequiredKeys |-> TypeOfKey(k)], owner_nicks |-> <<>>]

\* the type maps that differ from a valid one in at most n keys
RECURSIVE Faulty(_)
Faulty(n) ==
    IF n = 0 THEN {ValidConfig.types}
    ELSE LET prev == Faulty(n - 1) IN
         prev \cup {[f EXCEPT ![k] = t] :
                       f \in prev, k \in RequiredKeys,
                       t \in ValueTypes \cup {MISSING}}

OwnerEntry(kind, nick, password, hosts) ==
    [kind |-> kind, nick |-> nick, password |-> password, hosts |-> hosts]

\* owner_nicks lists of the config file: mappings with a password, with
\* hosts, with neither, with a blank of each; a bare nick; a number
OwnerEntryInputs ==
    { <<>>,
      <<OwnerEntry("dict", "op", "pw", <<>>)>>,
      <<OwnerEntry("dict", " Op ", NONE, <<"o@h1">>)>>,
      <<OwnerEntry("dict", "op", NONE, <<>>)>>,
      <<OwnerEntry("dict", "op", "", <<" ">>)>>,
      <<OwnerEntry("str", "admin", NONE, <<>>)>>,
      <<OwnerEntry("dict", "op", "pw", <<>>),
        OwnerEntry("int", NONE, NONE, <<>>)>> }

\* the mappings read from the config file
ConfigInputs ==
    {[types |-> f,
      owner_nicks |-> IF f["owner_nicks"] = "list" THEN o ELSE <<>>] :
        f \in Faulty(MaxFaults), o \in OwnerEntryInputs}

\* run_bot builds the client from the config file: an exception of
\* load_config or of IRCClient.__init__ ends the process before start()
RunBotLoad ==
    /\ load_result = NoResult
    /\ load_result' = LoadOutcome(config_in)
    /\ owner_records' = IF LoadOutcome(config_in) = Accepted
                        THEN OwnerRecordsOf(config_in.owner_nicks)
                        ELSE owner_records
    /\ exit_code' = IF LoadOutcome(config_in) = Accepted THEN exit_code
                    ELSE "1"
    /\ UNCHANGED <<line_in, env_channels, ignored_nicks, config_in,
                   bot_config, file_config, merge_log, join_run>>

---------------------------------------------------------------------------
(* Process start and the environment of the owner builtins *)

\* owner_nicks sections of the config file
OwnerConfigs ==
    { [op |-> [nick |-> "op", password |-> "pw", hosts |-> {}]],
      [op |-> [nick |-> "Op", password |-> "pw", hosts |-> {"~o@H1"}]],
      [op |-> [nick |-> "op", password |-> NONE, hosts |-> {"o@h1"}]] }

\* IRCClient.__init__ on the config file dsk
OwnerInit(dsk) ==
    /\ nickname = "me"
    /\ disk = dsk
    /\ owner_records = LoadOwnerRecords(dsk.owner_nicks)
    /\ channels = dsk.channels
    /\ write_failed = FALSE
    /\ last_msg = NoMsg
    /\ last_out = <<>>

SendInit ==
    /\ send_queue = <<>>
    /\ queue_maxsize = QUEUE_MAX

\* the engine once start() has connected and registered and awaits the
\* reader task, with nothing written yet
ConnectedEng(delay) ==
    [stop_event |-> FALSE, backoff |-> Max(delay, 1),
     start_pc |-> "await_reader", cl_pc |-> [th \in Threads |-> "idle"],
     writer_ref |-> TRUE, writer_st |-> "running",
     reader_ref |-> TRUE, reader_st |-> "running", sock |-> "open",
     exit_code |-> "running", wait |-> 0, established |-> TRUE,
     send_queue |-> <<"NICK me", "USER u 0 * :r">>,
     queue_maxsize |-> QUEUE_MAX]

\* the process stops (at any point) and is started again: the runtime state
\* is rebuilt from the config file, the enabled plugins are loaded again and
\* the engine connects
Restart ==
    /\ owner_records' = LoadOwnerRecords(disk.owner_nicks)
    /\ channels' = disk.channels
    /\ nickname' = "me"
    /\ write_failed' = FALSE
    /\ last_msg' = NoMsg
    /\ last_out' = <<>>
    /\ SetEng(ConnectedEng(reconnect_delay))
    /\ signals_registered' = TRUE
    /\ signal_sent' = FALSE
    /\ fails' = 0
    /\ connects' = 1
    /\ in_count' = 0
    /\ last_in' = NoLine
    /\ plugin_tasks' = [p \in Plugins |-> {}]
    /\ tasks' = [t \in TaskIds |-> NoTask]
    /\ sem' = MaxConcurrentTasks
    /\ UNCHANGED <<disk, plugins>>

OwnerMessages == [prefix : OwnerPrefixes, target : Targets, text : OwnerTexts]

\* _reader_loop is back at readline: the history of the message handled
\* before is dropped
ReaderNext ==
    /\ exit_code = "running"
    /\ last_msg # NoMsg
    /\ last_msg' = NoMsg
    /\ last_out' = <<>>
    /\ UNCHANGED <<nickname, owner_records, channels, disk, write_failed>>

\* _reader_loop is back at readline after a line that RecvLine routed
LineNext ==
    /\ exit_code = "running"
    /\ line_in # NONE
    /\ line_in' = NONE
    /\ UNCHANGED <<env_channels, ignored_nicks, config_in, load_result,
                   bot_config, file_config, merge_log, join_run>>

\* one round of _reader_loop on a PRIVMSG of msgs (dispatch_message needs a
\* free task per loaded plugin)
RecvPrivmsg(msgs) ==
    /\ exit_code = "running"
    /\ reader_st = "running"
    /\ Cardinality(FreeIds(tasks)) >=
          Cardinality(plugins) + (IF DOMAIN commands = {} THEN 0 ELSE 1)
    /\ \E m \in msgs, w1 \in BOOLEAN, w2 \in BOOLEAN :
          HandlePrivmsg(m, w1, w2)

---------------------------------------------------------------------------
(* The initial joins after 001 (core/irc_client.py) *)

MaxJoinDelay == 1   \* join_delay_secs is drawn from 0..MaxJoinDelay

\* no run of _join_initial_channels has begun
IdleRun ==
    [pc |-> "idle", todo |-> <<>>, wake |-> 0, delay |-> 0, start |-> 0,
     log |-> <<>>, configured |-> <<>>]

\* _handle_message on 001 calls _join_initial_channels, which begins its
\* loop over self.channels; delay is join_delay_secs
Welcome(delay) ==
    /\ exit_code = "running"
    /\ reader_st = "running"
    /\ join_run.pc = "idle"
    /\ join_run' = [pc |-> IF channels = <<>> THEN "done" ELSE "joining",
                    todo |-> channels, wake |-> now, delay |-> delay,
                    start |-> now, log |-> <<>>, configured |-> channels]

\* one round of the loop from `await self.join(channel)` on: send_raw hands
\* the JOIN to the queue or drops it, _remember_channel normalises the list
\* in memory and _persist_channels takes the lock of the config file.  lok:
\* whether the lock can be taken; when it cannot, the exception leaves
\* join, the loop and _handle_message, and ends the reader task.  wok:
\* whether atomic_write_yaml succeeds; its failure is logged.  When
\* channels are left the loop sleeps join_delay_secs, if that is positive.
JoinStep(wok, lok) ==
    /\ exit_code = "running"
    /\ join_run.pc = "joining"
    /\ LET channel == Head(join_run.todo)
           q == SendRaw(send_queue, queue_maxsize, "JOIN " \o channel)
           log == IF q # send_queue
                  THEN Append(join_run.log, [channel |-> channel, at |-> now])
                  ELSE join_run.log
           c == Strip(channel)
           r == RememberChannel(channels, disk, channel, wok)
           rest == Tail(join_run.todo)
       IN  /\ send_queue' = q
           /\ IF c # "" /\ ~lok
              THEN /\ channels' = NormalizeChannels(
                                     IF HasChannel(channels, c) THEN channels
                                     ELSE Append(channels, c))
                   /\ reader_st' = "failed"
                   /\ join_run' = [join_run EXCEPT !.pc = "raised",
                                                   !.log = log]
                   /\ UNCHANGED <<disk, write_failed>>
              ELSE /\ channels' = r.channels
                   /\ disk' = r.disk
                   /\ write_failed' = (write_failed \/ r.failed)
                   /\ reader_st' = reader_st
                   /\ join_run' =
                         [join_run EXCEPT
                             !.pc = IF rest = <<>> THEN "done"
                                    ELSE IF join_run.delay > 0 THEN "sleeping"
                                    ELSE "joining",
                             !.todo = rest,
                             !.wake = now + join_run.delay,
                             !.log = log]

\* asyncio.sleep(self.join_delay_secs) of the loop returns
JoinWake ==
    /\ exit_code = "running"
    /\ join_run.pc = "sleeping"
    /\ now >= join_run.wake
    /\ join_run' = [join_run EXCEPT !.pc = "joining"]

---------------------------------------------------------------------------
(* Plugin defaults: CONFIG_DEFAULTS merged into the config *)

MaxItems == 2       \* items of a list value of a config mapping
MaxMerges == 2      \* merges of defaults per behaviour

\* the keys of a config mapping and of a mapping nested in it
TopKeys == {"k1", "k2"}
SubKeys == {"a"}

\* a mapping without keys
EmptyMapping == [k \in {} |-> ""]

\* the values of a config mapping: a scalar, a list of scalars, a mapping
Str(s) == [t |-> "str", s |-> s, l |-> <<>>, d |-> EmptyMapping]
List(l) == [t |-> "list", s |-> "", l |-> l, d |-> EmptyMapping]
Dict(d) == [t |-> "dict", s |-> "", l |-> <<>>, d |-> d]

\* `for item in value: if item not in existing: existing.append(item)`
RECURSIVE AppendMissing(_, _)
AppendMissing(existing, value) ==
    IF value = <<>> THEN existing
    ELSE AppendMissing(
            IF \E i \in DOMAIN existing : existing[i] = Head(value)
            THEN existing ELSE Append(existing, Head(value)),
            Tail(value))

\* a default that is put over the value the key has
SetDefault_Overwrite(has, existing, value) ==
    [value |-> value, changed |-> ~has \/ existing # value]

\* the last branch of _merge_defaults, for a default that is neither a
\* mapping nor a list: `if key not in target: target[key] = value`
SetDefault(has, existing, value) ==
    IF has THEN [value |-> existing, changed |-> FALSE]
    ELSE [value |-> value, changed |-> TRUE]

\* PluginManager._merge_defaults: the mapping target after the call and the
\* flag it returns.  Each key of defaults touches the entry of target under
\* the same key only.
RECURSIVE MergeDefaults(_, _)
MergeDefaults(target, defaults) ==
    LET MergeKey(key) ==
            LET value == defaults[key]
                has == key \in DOMAIN target
            IN  CASE value.t = "dict" ->
                       IF has /\ target[key].t = "dict"
                       THEN LET m == MergeDefaults(target[key].d, value.d)
                            IN  [value |-> Dict(m.target),
                                 changed |-> m.changed]
                       ELSE IF has
                       THEN [value |-> target[key], changed |-> FALSE]
                       ELSE LET m == MergeDefaults(EmptyMapping, value.d)
                            IN  [value |-> Dict(m.target), changed |-> TRUE]
                  [] value.t = "list" ->
                       LET existing == IF has THEN target[key] ELSE List(<<>>)
                       IN  IF existing.t # "list"
                           THEN [value |-> existing, changed |-> FALSE]
                           ELSE LET u == AppendMissing(existing.l, value.l)
                                IN  [value |-> List(u),
                                     changed |-> u # existing.l]
                  [] OTHER ->
                       SetDefault(has, IF has THEN target[key] ELSE value,
                                  value)
        r == [key \in DOMAIN defaults |-> MergeKey(key)]
    IN  [target |-> [key \in DOMAIN target \cup DOMAIN defaults |->
                        IF key \in DOMAIN defaults THEN r[key].value
                        ELSE target[key]],
         changed |-> \E key \in DOMAIN defaults : r[key].changed]

NoMerge ==
    [defaults |-> EmptyMapping, changed |-> FALSE, again |-> FALSE, n |-> 0]

\* bot.config and the config file hold target, no defaults merged yet
MergeInit(target) ==
    /\ bot_config = target
    /\ file_config = target
    /\ merge_log = NoMerge

\* PluginManager._apply_config_defaults for a module whose CONFIG_DEFAULTS
\* is the non-empty mapping defaults: they are merged into bot.config, then
\* into the mapping read from the config file, which is written back only
\* when that merge reports a change
ApplyConfigDefaults(defaults) ==
    /\ exit_code = "running"
    /\ defaults # EmptyMapping
    /\ merge_log.n < MaxMerges
    /\ bot_config' = MergeDefaults(bot_config, defaults).target
    /\ LET m == MergeDefaults(file_config, defaults)
       IN  /\ file_config' = IF m.changed THEN m.target ELSE file_config
           /\ merge_log' = [defaults |-> defaults,
                            changed |-> m.changed,
                            again |-> merge_log # NoMerge
                                      /\ merge_log.defaults = defaults,
                            n |-> merge_log.n + 1]
    /\ UNCHANGED <<line_in, env_channels, ignored_nicks, config_in,
                   load_result, join_run>>

\* The state beyond the engine once run_bot has built the registry and the
\* client and load_all is through: no command registered, no line handled,
\* no CHANNELS override, an enabled flag on file for every loaded plugin.
\* on_load of scripts/ignore.py: the entries of plugins.ignore.ignored_nicks
\* that are not blank, stripped and lowercased
LoadIgnored(entries) ==
    {Lower(Strip(entries[i])) :
        i \in {j \in DOMAIN entries : Strip(entries[j]) # ""}}

\* the state beyond the client's own, for a CHANNELS override env and the
\* ignore list ign of the config file, before the mapping cfg is loaded
ExtInitMerge(env, ign, cfg, res, target) ==
    /\ MergeInit(target)
    /\ join_run = IdleRun
    /\ config_in = cfg
    /\ load_result = res
    /\ commands = <<>>
    /\ plugin_commands = [p \in Plugins |-> {}]
    /\ last_reg = NoReg
    /\ line_in = NONE
    /\ env_channels = env
    /\ ignored_nicks = LoadIgnored(ign)
    /\ file_form = "whole"
    /\ file_lock = NONE
    /\ cfg_pc = [w \in ConfigWriters |-> "idle"]
    /\ cfg_op = [w \in ConfigWriters |-> NoOp]
    /\ cfg_data = [w \in ConfigWriters |-> EmptyDoc]

\* the same with no plugin settings in the config
ExtInitBase(env, ign, cfg, res) ==
    ExtInitMerge(env, ign, cfg, res, EmptyMapping)

\* the same with the registry as load_all leaves it when the plugin files
\* found are those of plugins and every load has succeeded
ExtInitConfig(env, ign, cfg, res) ==
    /\ ExtInitBase(env, ign, cfg, res)
    /\ file_plugins = [p \in Plugins |-> IF p \in plugins THEN "true" ELSE NONE]
    /\ disabled_plugins = {}
    /\ known_plugins = plugins

\* the same once a valid mapping has been loaded
ExtInitWith(env, ign) ==
    ExtInitConfig(env, ign, ValidConfig, LoadOutcome(ValidConfig))

ExtInitEnv(env) == ExtInitWith(env, <<>>)

ExtInit == ExtInitEnv(NONE)

\* load_config: the mapping read from the config file with the environment
\* overrides applied to it
LoadConfig(dsk, env) ==
    IF env = NONE THEN dsk ELSE [dsk EXCEPT !.channels = env]

\* channels sections of the config file, and values of CHANNELS
DiskChannels == {<<"#a">>, <<" #a">>}

EnvChannels == {NONE, <<"#x">>}

\* IRCClient.__init__ on the mapping load_config made of the file dsk
ClientInit(dsk, env) ==
    /\ nickname = "me"
    /\ disk = dsk
    /\ owner_records = LoadOwnerRecords(LoadConfig(dsk, env).owner_nicks)
    /\ channels = LoadConfig(dsk, env).channels
    /\ write_failed = FALSE
    /\ last_msg = NoMsg
    /\ last_out = <<>>

\* start() has connected and registered and awaits the reader task
ConnectedInit ==
    /\ reconnect_delay = 1
    /\ max_backoff = 1
    /\ \E e \in {ConnectedEng(1)} :
          /\ stop_event = e.stop_event
          /\ backoff = e.backoff
          /\ start_pc = e.start_pc
          /\ cl_pc = e.cl_pc
          /\ writer_ref = e.writer_ref
          /\ writer_st = e.writer_st
          /\ reader_ref = e.reader_ref
          /\ reader_st = e.reader_st
          /\ sock = e.sock
          /\ exit_code = e.exit_code
          /\ wait = e.wait
          /\ established = e.established
          /\ send_queue = e.send_queue
          /\ queue_maxsize = e.queue_maxsize
    /\ signals_registered = TRUE
    /\ signal_sent = FALSE
    /\ fails = 0
    /\ connects = 1
    /\ in_count = 0
    /\ last_in = NoLine

---------------------------------------------------------------------------
(* Specifications *)

InitGate ==
    /\ \E n \in 1..MaxRateCount, w \in 1..MaxRateWindow : GateInit(n, w)
    /\ OwnerInit([owner_nicks |-> <<>>, channels |-> <<>>])
    /\ SendInit
    /\ EngInit([delay |-> 1, max |-> 1])
    /\ TasksInit({})
    /\ ExtInit

NextGate ==
    \/ \E c \in Callers :
          AcquireCall(c) /\ UNCHANGED <<owner_vars, send_vars, eng_vars, task_vars, ext_vars>>
    \/ \E c \in Callers :
          AcquireGrant(c) /\ UNCHANGED <<owner_vars, send_vars, eng_vars, task_vars, ext_vars>>
    \/ \E c \in Callers :
          AcquireWake(c) /\ UNCHANGED <<owner_vars, send_vars, eng_vars, task_vars, ext_vars>>
    \/ \E c \in Callers :
          CancelAcquire(c) /\ UNCHANGED <<owner_vars, send_vars, eng_vars, task_vars, ext_vars>>
    \/ Tick /\ UNCHANGED <<owner_vars, send_vars, eng_vars, task_vars, ext_vars>>

SpecGate == InitGate /\ [][NextGate]_vars

\* IRCClient.refresh_runtime_settings, as _refresh_bot_config calls it from
\* load(refresh_config=True) and from reload, seen from the rate gate of one
\* target: the settings are read again from an unchanged config and the
\* dictionary of per-target limiters is cleared, so the next privmsg to the
\* target makes a new AsyncRateLimiter whose history is empty.  Taken while
\* no privmsg is inside the gate of the target.
RefreshRuntimeSettings ==
    /\ \A c \in Callers : acq_pc[c] = "idle"
    /\ lock_holder = "none"
    /\ events' = <<>>
    /\ UNCHANGED <<now, max_messages, per_seconds, lock_holder, lock_waiters,
                   acq_pc, wake_at, completions, call_seq>>

\* the rate gate of one target (key target.lower()) under privmsg calls and
\* runtime refreshes
NextTarget ==
    \/ NextGate
    \/ RefreshRuntimeSettings
       /\ UNCHANGED <<owner_vars, send_vars, eng_vars, task_vars, ext_vars>>

SpecTarget == InitGate /\ [][NextTarget]_vars

\* the owner builtins on an established connection
InitOwner ==
    /\ GateInit(1, 1)
    /\ \E cfg \in OwnerConfigs :
          OwnerInit([owner_nicks |-> cfg, channels |-> <<"#a">>])
    /\ reconnect_delay = 1
    /\ max_backoff = 1
    /\ \E e \in {ConnectedEng(1)} :
          /\ stop_event = e.stop_event
          /\ backoff = e.backoff
          /\ start_pc = e.start_pc
          /\ cl_pc = e.cl_pc
          /\ writer_ref = e.writer_ref
          /\ writer_st = e.writer_st
          /\ reader_ref = e.reader_ref
          /\ reader_st = e.reader_st
          /\ sock = e.sock
          /\ exit_code = e.exit_code
          /\ wait = e.wait
          /\ established = e.established
          /\ send_queue = e.send_queue
          /\ queue_maxsize = e.queue_maxsize
    /\ signals_registered = TRUE
    /\ signal_sent = FALSE
    /\ fails = 0
    /\ connects = 1
    /\ in_count = 0
    /\ last_in = NoLine
    /\ TasksInit({})
    /\ ExtInit

\* The builtins await privmsg, whose rate gates hold the reader back: the
\* next PRIVMSG is handled once the writer has drained the queue (SpecSend
\* covers a queue that fills up) and the reader is back at readline.
NextOwner ==
    \/ /\ send_queue = <<>>
       /\ last_msg = NoMsg
       /\ RecvPrivmsg(OwnerMessages)
       /\ UNCHANGED <<ext_vars, gate_vars>>
    \/ ReaderNext /\ UNCHANGED <<ext_vars, gate_vars, send_vars, eng_vars, task_vars>>
    \/ WriterWrite /\ UNCHANGED <<ext_vars, gate_vars, owner_vars, task_vars>>
    \/ Restart /\ UNCHANGED <<ext_vars, gate_vars>>

SpecOwner == InitOwner /\ [][NextOwner]_vars

\* the connection engine
InitEngine ==
    /\ GateInit(1, 1)
    /\ OwnerInit([owner_nicks |-> <<>>, channels |-> <<>>])
    /\ SendInit
    /\ \E cfg \in BackoffConfigs : EngInit(cfg)
    /\ TasksInit({})
    /\ ExtInit

NextEngine ==
    \/ StartCall /\ UNCHANGED <<ext_vars, gate_vars, owner_vars, task_vars>>
    \/ LoopTest /\ UNCHANGED <<ext_vars, gate_vars, owner_vars, task_vars>>
    \/ DialOk /\ UNCHANGED <<ext_vars, gate_vars, owner_vars, task_vars>>
    \/ DialFail /\ UNCHANGED <<ext_vars, gate_vars, owner_vars, task_vars>>
    \/ ReaderAwaited /\ UNCHANGED <<ext_vars, gate_vars, owner_vars, task_vars>>
    \/ SleepDone /\ UNCHANGED <<ext_vars, gate_vars, owner_vars, task_vars>>
    \/ ReaderRecv /\ UNCHANGED <<ext_vars, gate_vars, owner_vars, task_vars>>
    \/ ReaderEOF /\ UNCHANGED <<ext_vars, gate_vars, owner_vars, task_vars>>
    \/ ReaderError /\ UNCHANGED <<ext_vars, gate_vars, owner_vars, task_vars>>
    \/ ReaderCancelled /\ UNCHANGED <<ext_vars, gate_vars, owner_vars, task_vars>>
    \/ WriterCancelled /\ UNCHANGED <<ext_vars, gate_vars, owner_vars, task_vars>>
    \/ WriterWrite /\ UNCHANGED <<ext_vars, gate_vars, owner_vars, task_vars>>
    \/ WriterLost /\ UNCHANGED <<ext_vars, gate_vars, owner_vars, task_vars>>
    \/ Signal /\ UNCHANGED <<ext_vars, gate_vars, owner_vars, task_vars>>
    \/ \E th \in Threads :
          CleanupResume(th) /\ UNCHANGED <<ext_vars, gate_vars, owner_vars, task_vars>>
    \/ RunBotFinally /\ UNCHANGED <<ext_vars, gate_vars, owner_vars, task_vars>>

SpecEngine == InitEngine /\ [][NextEngine]_vars

\* the steps the event loop takes by itself: every coroutine that can go on
\* is resumed; the dial outcome, the inbound lines, the end of the
\* connection and the signals are the environment's
EngineStep ==
    /\ \/ StartCall \/ LoopTest \/ ReaderAwaited \/ SleepDone
       \/ ReaderCancelled \/ WriterCancelled \/ WriterWrite
       \/ \E th \in Threads : CleanupResume(th)
       \/ RunBotFinally
    /\ UNCHANGED <<ext_vars, gate_vars, owner_vars, task_vars>>

\* the connection engine under the scheduling of the asyncio event loop
SpecEngineLive == InitEngine /\ [][NextEngine]_vars /\ WF_vars(EngineStep)

\* the send path over connections that the server closes
NextSend ==
    \/ StartCall /\ UNCHANGED <<ext_vars, gate_vars, owner_vars, task_vars>>
    \/ LoopTest /\ UNCHANGED <<ext_vars, gate_vars, owner_vars, task_vars>>
    \/ DialOk /\ UNCHANGED <<ext_vars, gate_vars, owner_vars, task_vars>>
    \/ ReaderAwaited /\ UNCHANGED <<ext_vars, gate_vars, owner_vars, task_vars>>
    \/ ReaderRecv /\ UNCHANGED <<ext_vars, gate_vars, owner_vars, task_vars>>
    \/ ReaderEOF /\ UNCHANGED <<ext_vars, gate_vars, owner_vars, task_vars>>
    \/ WriterCancelled /\ UNCHANGED <<ext_vars, gate_vars, owner_vars, task_vars>>
    \/ WriterWrite /\ UNCHANGED <<ext_vars, gate_vars, owner_vars, task_vars>>
    \/ \E th \in Threads :
          CleanupResume(th) /\ UNCHANGED <<ext_vars, gate_vars, owner_vars, task_vars>>
    \/ SendRawCall /\ UNCHANGED <<ext_vars, gate_vars, owner_vars, task_vars>>

SpecSend == InitEngine /\ [][NextSend]_vars

\* the handler registry on an established connection, up to the end of the
\* process
TaskMessages == {[prefix |-> "x!u@h", target |-> "#a", text |-> "hi"]}

InitTasks ==
    /\ GateInit(1, 1)
    /\ OwnerInit([owner_nicks |-> <<>>, channels |-> <<"#a">>])
    /\ reconnect_delay = 1
    /\ max_backoff = 1
    /\ \E e \in {ConnectedEng(1)} :
          /\ stop_event = e.stop_event
          /\ backoff = e.backoff
          /\ start_pc = e.start_pc
          /\ cl_pc = e.cl_pc
          /\ writer_ref = e.writer_ref
          /\ writer_st = e.writer_st
          /\ reader_ref = e.reader_ref
          /\ reader_st = e.reader_st
          /\ sock = e.sock
          /\ exit_code = e.exit_code
          /\ wait = e.wait
          /\ established = e.established
          /\ send_queue = e.send_queue
          /\ queue_maxsize = e.queue_maxsize
    /\ signals_registered = TRUE
    /\ signal_sent = FALSE
    /\ fails = 0
    /\ connects = 1
    /\ in_count = 0
    /\ last_in = NoLine
    /\ TasksInit(Plugins)
    /\ ExtInit

NextTasks ==
    \/ RecvPrivmsg(TaskMessages) /\ UNCHANGED <<ext_vars, gate_vars>>
    \/ \E t \in TaskIds :
          TaskStart(t) /\ UNCHANGED <<ext_vars, gate_vars, owner_vars, send_vars, eng_vars>>
    \/ \E t \in TaskIds :
          HandlerCreateChild(t)
          /\ UNCHANGED <<ext_vars, gate_vars, owner_vars, send_vars, eng_vars>>
    \/ \E t \in TaskIds :
          TaskFinish(t) /\ UNCHANGED <<ext_vars, gate_vars, owner_vars, send_vars, eng_vars>>
    \/ \E t \in TaskIds :
          TaskCancelled(t)
          /\ UNCHANGED <<ext_vars, gate_vars, owner_vars, send_vars, eng_vars>>
    \/ \E t \in TaskIds :
          ChildFinish(t) /\ UNCHANGED <<ext_vars, gate_vars, owner_vars, eng_vars>>
    \/ \E p \in Plugins :
          Load(p) /\ UNCHANGED <<event_vars, gate_vars, owner_vars, send_vars, eng_vars>>
    \/ \E p \in Plugins :
          Unload(p) /\ UNCHANGED <<event_vars, gate_vars, owner_vars, send_vars, eng_vars>>
    \/ WriterWrite /\ UNCHANGED <<ext_vars, gate_vars, owner_vars, task_vars>>
    \/ Signal /\ UNCHANGED <<ext_vars, gate_vars, owner_vars, task_vars>>
    \/ ReaderCancelled /\ UNCHANGED <<ext_vars, gate_vars, owner_vars, task_vars>>
    \/ WriterCancelled /\ UNCHANGED <<ext_vars, gate_vars, owner_vars, task_vars>>
    \/ ReaderAwaited /\ UNCHANGED <<ext_vars, gate_vars, owner_vars, task_vars>>
    \/ \E th \in Threads :
          CleanupResume(th) /\ UNCHANGED <<ext_vars, gate_vars, owner_vars, task_vars>>
    \/ RunBotFinally /\ UNCHANGED <<ext_vars, gate_vars, owner_vars, task_vars>>

SpecTasks == InitTasks /\ [][NextTasks]_vars

\* the router on an established connection: inbound events, the join and
\* part commands of a trusted owner, the handler tasks they start
ChannelMessages ==
    [prefix : {"op!o@h1"}, target : {"#a"}, text : {".Join #b", ".part #A"}]

InitEvents ==
    /\ GateInit(1, 1)
    /\ \E chs \in DiskChannels, env \in EnvChannels :
          /\ ClientInit([owner_nicks |->
                            [op |-> [nick |-> "op", password |-> NONE,
                                     hosts |-> {"o@h1"}]],
                         channels |-> chs], env)
          /\ \E loaded \in {{"p1"}, Plugins} :
                /\ TasksInit(loaded)
                /\ ExtInitEnv(env)
    /\ ConnectedInit

\* The server's next line is routed once the writer has drained the queue
\* and the reader is back at readline.
NextEvents ==
    \/ /\ send_queue = <<>>
       /\ last_msg = NoMsg
       /\ line_in = NONE
       /\ RecvLine(EventLines)
       /\ UNCHANGED <<gate_vars, reg_vars, file_vars>>
    \/ /\ send_queue = <<>>
       /\ last_msg = NoMsg
       /\ line_in = NONE
       /\ RecvPrivmsg(ChannelMessages)
       /\ UNCHANGED <<ext_vars, gate_vars>>
    \/ LineNext
       /\ UNCHANGED <<gate_vars, owner_vars, send_vars, eng_vars, task_vars,
                      reg_vars, file_vars>>
    \/ ReaderNext /\ UNCHANGED <<ext_vars, gate_vars, send_vars, eng_vars, task_vars>>
    \/ WriterWrite /\ UNCHANGED <<ext_vars, gate_vars, owner_vars, task_vars>>
    \/ \E t \in TaskIds :
          TaskStart(t) /\ UNCHANGED <<ext_vars, gate_vars, owner_vars, send_vars, eng_vars>>
    \/ \E t \in TaskIds :
          TaskFinish(t) /\ UNCHANGED <<ext_vars, gate_vars, owner_vars, send_vars, eng_vars>>
    \/ ReaderAwaited /\ UNCHANGED <<ext_vars, gate_vars, owner_vars, task_vars>>
    \/ WriterCancelled /\ UNCHANGED <<ext_vars, gate_vars, owner_vars, task_vars>>
    \/ \E th \in Threads :
          CleanupResume(th) /\ UNCHANGED <<ext_vars, gate_vars, owner_vars, task_vars>>
    \/ RunBotFinally /\ UNCHANGED <<ext_vars, gate_vars, owner_vars, task_vars>>

SpecEvents == InitEvents /\ [][NextEvents]_vars

\* two processes on one config file, each persisting its channel list and
\* the enabled flags of its plugins
PersistInputs == {<<"#a">>, <<"#a", "#b">>}

FlagInputs == {"true", "false"}

ConfigUnchanged ==
    UNCHANGED <<gate_vars, send_vars, eng_vars, task_vars, reg_vars,
                event_vars, nickname, owner_records, channels, write_failed,
                last_msg, last_out, disabled_plugins, known_plugins>>

InitConfig ==
    /\ GateInit(1, 1)
    /\ OwnerInit([owner_nicks |-> <<>>, channels |-> <<"#a">>])
    /\ ConnectedInit
    /\ TasksInit({"p1"})
    /\ ExtInit

NextConfig ==
    \/ \E w \in ConfigWriters, chs \in PersistInputs :
          PersistBegin(w, chs) /\ ConfigUnchanged
    \/ \E w \in ConfigWriters : PersistLock(w) /\ ConfigUnchanged
    \/ \E w \in ConfigWriters : PersistRead(w) /\ ConfigUnchanged
    \/ \E w \in ConfigWriters : PersistReplace(w) /\ ConfigUnchanged
    \/ \E w \in ConfigWriters, p \in Plugins, en \in FlagInputs :
          PluginEntryBegin(w, p, en) /\ ConfigUnchanged
    \/ \E w \in ConfigWriters : PluginEntryRead(w) /\ ConfigUnchanged
    \/ \E w \in ConfigWriters : PluginEntryOpen(w) /\ ConfigUnchanged
    \/ \E w \in ConfigWriters : PluginEntryDump(w) /\ ConfigUnchanged
    \/ \E w \in ConfigWriters : Crash(w) /\ ConfigUnchanged

SpecConfig == InitConfig /\ [][NextConfig]_vars

\* the registry with a command: a plugin registers it, channel messages
\* run it and the on_message handlers, time passes
CommandMessages ==
    [prefix : {"x!u@h"}, target : {"#a"}, text : {".Seen x", "hi"}]

InitCommands ==
    /\ GateInit(1, 1)
    /\ OwnerInit([owner_nicks |-> <<>>, channels |-> <<"#a">>])
    /\ ConnectedInit
    /\ TasksInit(Plugins)
    /\ ExtInit

TasksOnly == UNCHANGED <<ext_vars, gate_vars, owner_vars, send_vars, eng_vars>>

NextCommands ==
    \/ /\ DOMAIN commands = {}
       /\ RegisterCommand("p1", "seen", <<"S">>, "coro")
       /\ UNCHANGED <<gate_vars, owner_vars, send_vars, eng_vars, task_vars,
                      event_vars, file_vars>>
    \/ /\ last_msg = NoMsg
       /\ RecvPrivmsg(CommandMessages)
       /\ UNCHANGED <<ext_vars, gate_vars>>
    \/ ReaderNext /\ UNCHANGED <<ext_vars, gate_vars, send_vars, eng_vars, task_vars>>
    \/ \E t \in TaskIds : TaskStart(t) /\ TasksOnly
    \/ \E t \in TaskIds : TaskFinish(t) /\ TasksOnly
    \/ \E t \in TaskIds : TaskTimeout(t) /\ TasksOnly
    \/ \E t \in TaskIds : TaskCancelled(t) /\ TasksOnly
    \/ TaskTick /\ TasksOnly
    \/ \E p \in Plugins :
          Unload(p)
          /\ UNCHANGED <<event_vars, gate_vars, owner_vars, send_vars, eng_vars>>

SpecCommands == InitCommands /\ [][NextCommands]_vars

\* the command map: plugins are loaded and unloaded and register commands
CommandInputs == {"seen", "Log", ""}

AliasInputs == {<<>>, <<"S">>, <<"seen", "">>, <<"LOG", "l">>}

\* the handlers registered: a coroutine function, or a plain function
HandlerOf(command) == IF Lower(command) = "log" THEN "sync" ELSE "coro"

InitRegister ==
    /\ GateInit(1, 1)
    /\ OwnerInit([owner_nicks |-> <<>>, channels |-> <<"#a">>])
    /\ ConnectedInit
    /\ \E loaded \in SUBSET Plugins : TasksInit(loaded)
    /\ ExtInit

NextRegister ==
    \/ \E p \in Plugins, command \in CommandInputs, aliases \in AliasInputs :
          /\ last_reg = NoReg
          /\ RegisterCommand(p, command, aliases, HandlerOf(command))
          /\ UNCHANGED <<gate_vars, owner_vars, send_vars, eng_vars, task_vars,
                         event_vars, file_vars>>
    \/ RegNext
       /\ UNCHANGED <<gate_vars, owner_vars, send_vars, eng_vars, task_vars,
                      event_vars, file_vars>>
    \/ \E p \in Plugins :
          /\ last_reg = NoReg
          /\ Load(p)
          /\ UNCHANGED <<event_vars, gate_vars, owner_vars, send_vars, eng_vars>>
    \/ \E p \in Plugins :
          /\ last_reg = NoReg
          /\ Unload(p)
          /\ UNCHANGED <<event_vars, gate_vars, owner_vars, send_vars, eng_vars>>

SpecRegister == InitRegister /\ [][NextRegister]_vars

\* the router of PRIVMSG: a trusted owner and a nick with a password, a
\* plugin that registers commands, the ignore list of the config file
DispatchOwners ==
    [op |-> [nick |-> "op", password |-> NONE, hosts |-> {"o@h1"}],
     eve |-> [nick |-> "Eve", password |-> "pw", hosts |-> {}]]

IgnoredInputs == {<<>>, <<" Eve ", "">>}

DispatchMessages ==
    [prefix : {"op!o@h1", "Eve!x@h2"}, target : {"me", "#a"},
     text : {".say #a hi", ".auth pw", ".Seen x"}]

InitDispatch ==
    /\ GateInit(1, 1)
    /\ OwnerInit([owner_nicks |-> DispatchOwners, channels |-> <<"#a">>])
    /\ ConnectedInit
    /\ TasksInit({"p1"})
    /\ \E ign \in IgnoredInputs : ExtInitWith(NONE, ign)

NextDispatch ==
    \/ \E command \in {"say", "seen"} :
          /\ last_reg = NoReg
          /\ last_msg = NoMsg
          /\ RegisterCommand("p1", command, <<>>, "coro")
          /\ UNCHANGED <<gate_vars, owner_vars, send_vars, eng_vars, task_vars,
                         event_vars, file_vars>>
    \/ RegNext
       /\ UNCHANGED <<gate_vars, owner_vars, send_vars, eng_vars, task_vars,
                      event_vars, file_vars>>
    \/ /\ send_queue = <<>>
       /\ last_msg = NoMsg
       /\ last_reg = NoReg
       /\ RecvPrivmsg(DispatchMessages)
       /\ UNCHANGED <<ext_vars, gate_vars>>
    \/ ReaderNext /\ UNCHANGED <<ext_vars, gate_vars, send_vars, eng_vars, task_vars>>
    \/ WriterWrite /\ UNCHANGED <<ext_vars, gate_vars, owner_vars, task_vars>>
    \/ \E t \in TaskIds : TaskStart(t) /\ TasksOnly
    \/ \E t \in TaskIds : TaskFinish(t) /\ TasksOnly

SpecDispatch == InitDispatch /\ [][NextDispatch]_vars

\* process start on the mappings a config file can hold
InitLoad ==
    /\ GateInit(1, 1)
    /\ OwnerInit([owner_nicks |-> <<>>, channels |-> <<>>])
    /\ SendInit
    /\ EngInit([delay |-> 1, max |-> 1])
    /\ TasksInit({})
    /\ \E cfg \in ConfigInputs : ExtInitConfig(NONE, <<>>, cfg, NoResult)

NextLoad ==
    RunBotLoad
       /\ UNCHANGED <<gate_vars, send_vars, task_vars, reg_vars, file_vars>>
       /\ UNCHANGED <<nickname, channels, disk, write_failed, last_msg,
                      last_out>>
       /\ UNCHANGED <<reconnect_delay, max_backoff, stop_event, backoff,
                      start_pc, cl_pc, writer_ref, writer_st, reader_ref,
                      reader_st, sock, signals_registered, signal_sent, wait,
                      fails, connects, established, in_count, last_in>>

SpecLoad == InitLoad /\ [][NextLoad]_vars

\* registration on a connection whose server answers every NICK it has
\* received with 433, while handlers send and the writer drains
InitNick ==
    /\ GateInit(1, 1)
    /\ OwnerInit([owner_nicks |-> <<>>, channels |-> <<>>])
    /\ ConnectedInit
    /\ TasksInit({})
    /\ ExtInit

NextNick ==
    \/ /\ line_in = NONE
       /\ \A i \in DOMAIN send_queue : ~StartsWith(send_queue[i], "NICK ")
       /\ RecvLine(NickLines)
       /\ UNCHANGED <<gate_vars, reg_vars, file_vars>>
    \/ LineNext
       /\ UNCHANGED <<gate_vars, owner_vars, send_vars, eng_vars, task_vars,
                      reg_vars, file_vars>>
    \/ WriterWrite /\ UNCHANGED <<ext_vars, gate_vars, owner_vars, task_vars>>
    \/ SendRawCall /\ UNCHANGED <<ext_vars, gate_vars, owner_vars, task_vars>>

SpecNick == InitNick /\ [][NextNick]_vars

\* the life of the plugins from process start: load_all, then the load,
\* unload and reload commands, with on_load functions that register
\* commands and on_load functions that raise
OnLoadRegs ==
    [p \in Plugins |->
        IF p = "p1" THEN <<Registration("seen", <<"S">>, "coro")>>
        ELSE <<Registration("Log", <<>>, "sync"),
               Registration("seen", <<>>, "coro")>>]

NoRegs == [p \in Plugins |-> <<>>]

InitLifecycle ==
    /\ GateInit(1, 1)
    /\ OwnerInit([owner_nicks |-> <<>>, channels |-> <<>>])
    /\ SendInit
    /\ EngInit([delay |-> 1, max |-> 1])
    /\ TasksInit({})
    /\ ExtInitBase(NONE, <<>>, ValidConfig, LoadOutcome(ValidConfig))
    /\ known_plugins = {}
    /\ \E off \in SUBSET Plugins, on \in SUBSET Plugins :
          /\ off \cap on = {}
          /\ disabled_plugins = off
          /\ file_plugins = [p \in Plugins |->
                                IF p \in off THEN "false"
                                ELSE IF p \in on THEN "true" ELSE NONE]

LifecycleOnly ==
    UNCHANGED <<event_vars, gate_vars, owner_vars, send_vars, eng_vars>>

NextLifecycle ==
    \/ \E regs \in {OnLoadRegs, NoRegs}, failing \in SUBSET Plugins :
          LoadAll(regs, failing) /\ LifecycleOnly
    \/ \E p \in Plugins, regs \in {OnLoadRegs, NoRegs}, raises \in BOOLEAN :
          /\ known_plugins # {}
          /\ last_reg = NoReg
          /\ LoadWith(p, regs[p], raises)
          /\ LifecycleOnly
    \/ \E p \in Plugins :
          last_reg = NoReg /\ Unload(p) /\ LifecycleOnly
    \/ \E p \in Plugins, regs \in {OnLoadRegs, NoRegs}, raises \in BOOLEAN :
          /\ last_reg = NoReg
          /\ Reload(p, regs[p], raises)
          /\ LifecycleOnly
    \/ \E p \in Plugins :
          /\ p \in plugins
          /\ last_reg = NoReg
          /\ RegisterCommand(p, "Log", <<"l">>, "sync")
          /\ UNCHANGED <<gate_vars, owner_vars, send_vars, eng_vars, task_vars,
                         event_vars, file_vars>>
    \/ RegNext
       /\ UNCHANGED <<gate_vars, owner_vars, send_vars, eng_vars, task_vars,
                      event_vars, file_vars>>

SpecLifecycle == InitLifecycle /\ [][NextLifecycle]_vars

\* the merging of plugin defaults on its own: a config mapping from a
\* bounded set, and CONFIG_DEFAULTS of plugin modules merged into it
Items == {"x", "y"}

ListsUpTo(n) == UNION {[1..m -> Items] : m \in 0..n}

\* the values of the mapping at the start: a scalar, the lists of up to
\* MaxItems items, mappings that are empty or hold a scalar
ConfigValues ==
    {Str("y")} \cup {List(l) : l \in ListsUpTo(MaxItems)}
    \cup {Dict(EmptyMapping), Dict([k \in SubKeys |-> Str("y")])}

MappingsOver(keys, values) ==
    UNION {[ks -> values] : ks \in SUBSET keys}

\* the values CONFIG_DEFAULTS gives: a scalar, lists that are empty, hold
\* an item twice or hold two items, mappings that hold a scalar or a list
DefaultValues ==
    {Str("x"), List(<<>>), List(<<"x", "x">>), List(<<"y", "x">>),
     Dict([k \in SubKeys |-> Str("x")]),
     Dict([k \in SubKeys |-> List(<<"y">>)])}

DefaultsInputs == MappingsOver(TopKeys, DefaultValues) \ {EmptyMapping}

InitMerge ==
    /\ GateInit(1, 1)
    /\ OwnerInit([owner_nicks |-> <<>>, channels |-> <<>>])
    /\ SendInit
    /\ EngInit([delay |-> 1, max |-> 1])
    /\ TasksInit({})
    /\ \E target \in MappingsOver(TopKeys, ConfigValues) :
          ExtInitMerge(NONE, <<>>, ValidConfig, LoadOutcome(ValidConfig),
                       target)
    /\ file_plugins = [p \in Plugins |-> NONE]
    /\ disabled_plugins = {}
    /\ known_plugins = {}

NextMerge ==
    \E defaults \in DefaultsInputs :
       ApplyConfigDefaults(defaults)
       /\ UNCHANGED <<gate_vars, owner_vars, send_vars, eng_vars, task_vars,
                      reg_vars, file_vars>>

SpecMerge == InitMerge /\ [][NextMerge]_vars

\* the initial joins on an established connection, while handlers send
\* lines of their own and the writer empties the queue
JoinChannelInputs == {<<"#a">>, <<"#a", "#b">>, <<"#a", "#b", "#c">>}

JoinOthers ==
    <<nickname, owner_records, last_msg, last_out, queue_maxsize, line_in,
      env_channels, ignored_nicks, config_in, load_result, bot_config,
      file_config, merge_log>>

JoinEngine ==
    <<reconnect_delay, max_backoff, stop_event, backoff, start_pc, cl_pc,
      writer_ref, writer_st, reader_ref, sock, signals_registered,
      signal_sent, exit_code, wait, fails, connects, established, in_count,
      last_in>>

InitJoin ==
    /\ GateInit(1, 1)
    /\ \E chs \in JoinChannelInputs :
          OwnerInit([owner_nicks |-> <<>>, channels |-> chs])
    /\ ConnectedInit
    /\ TasksInit({})
    /\ ExtInit

NextJoin ==
    \/ \E delay \in 0..MaxJoinDelay :
          Welcome(delay)
          /\ UNCHANGED <<gate_vars, owner_vars, send_vars, eng_vars,
                         task_vars, reg_vars, file_vars, JoinOthers>>
    \/ \E wok \in BOOLEAN, lok \in BOOLEAN :
          JoinStep(wok, lok)
          /\ UNCHANGED <<gate_vars, task_vars, reg_vars, file_vars,
                         JoinEngine>>
          /\ UNCHANGED <<nickname, owner_records, last_msg, last_out,
                         queue_maxsize, line_in, env_channels, ignored_nicks,
                         config_in, load_result, bot_config, file_config,
                         merge_log>>
    \/ JoinWake
       /\ UNCHANGED <<gate_vars, owner_vars, send_vars, eng_vars, task_vars,
                      reg_vars, file_vars, JoinOthers>>
    \/ /\ join_run.pc # "joining"
       /\ Tick
       /\ UNCHANGED <<owner_vars, send_vars, eng_vars, task_vars, ext_vars>>
    \/ WriterWrite /\ UNCHANGED <<ext_vars, gate_vars, owner_vars, task_vars>>
    \/ SendRawCall /\ UNCHANGED <<ext_vars, gate_vars, owner_vars, task_vars>>

SpecJoin == InitJoin /\ [][NextJoin]_vars

---------------------------------------------------------------------------
(* C1 *)

CompletionsIn(t) ==
    Cardinality({i \in DOMAIN completions :
                    completions[i] >= t /\ completions[i] < t + per_seconds})

\* C1: for one rate gate (N, W), at most N acquire() calls complete in any
\* time window [t, t + W) of length W, waiting callers included.
C1_AtMostNPerWindow ==
    \A t \in 0..MaxTime : CompletionsIn(t) <= max_messages

---------------------------------------------------------------------------
(* C2 *)

\* two ident@host strings are the same ignoring case and up to one leading ~
SameHost(x, y) ==
    LET lx == Lower(x)
        ly == Lower(y)
    IN  lx = ly \/ lx = "~" \o ly \/ ly = "~" \o lx

\* prefix reads nick!ident@host with all three parts non-empty
WellFormed(prefix, b, a) ==
    /\ 1 < b /\ b + 1 < a /\ a < Len(prefix)
    /\ Char(prefix, b) = "!" /\ Char(prefix, a) = "@"
    /\ \A i \in 1..(b - 1) : Char(prefix, i) # "!"
    /\ \A i \in (b + 1)..(a - 1) : Char(prefix, i) # "@"

\* the well-formed input prefixes with their nick and ident@host
WellFormedPrefixes ==
    [p \in {q \in OwnerPrefixes :
               \E b \in 1..Len(q), a \in 1..Len(q) : WellFormed(q, b, a)} |->
        LET b == CHOOSE b \in 1..Len(p) :
                    \E a \in 1..Len(p) : WellFormed(p, b, a)
        IN  [nick |-> SubSeq(p, 1, b - 1), ident_host |-> Rest(p, b + 1)]]

\* the owner-access check as the claim words it
OwnerCheckPasses(records, prefix) ==
    /\ prefix \in DOMAIN WellFormedPrefixes
    /\ LET id == WellFormedPrefixes[prefix] IN
       /\ Lower(id.nick) \in DOMAIN records
       /\ \E h \in records[Lower(id.nick)].hosts : SameHost(h, id.ident_host)

\* whether each input text is a say, join or part command
IsPrivileged ==
    [t \in OwnerTexts |->
        /\ StartsWith(t, Sigil)
        /\ WordsRec(Rest(t, 2)) # <<>>
        /\ LowerRec(WordsRec(Rest(t, 2))[1]) \in {"say", "join", "part"}]

\* where the reply to m goes: to the caller in a query, else to the channel
\* the command was given in
ReplyTarget(m) ==
    IF Lower(m.target) = Lower(nickname) THEN NickOf(m.prefix) ELSE m.target

DeniedOnly(m) == <<PrivmsgLine(ReplyTarget(m), DeniedText)>>

C2_Step ==
    (/\ last_msg' # NoMsg
     /\ IsPrivileged[last_msg'.text]
     /\ ~OwnerCheckPasses(owner_records, last_msg'.prefix))
    => (/\ last_out' = DeniedOnly(last_msg')
        /\ channels' = channels
        /\ disk' = disk
        /\ owner_records' = owner_records)

\* C2: say, join and part take effect only for a caller whose prefix passes
\* the owner-access check; for any other caller the only line handed to
\* send_raw is the permission-denied reply, and neither the channel list
\* nor the config file changes.
C2_PrivilegedOnlyForOwner == [][C2_Step]_vars

\* a caller whose nick has an owner record with hosts, but who comes from
\* another host, was denied a join
C2_Witness ==
    /\ last_msg # NoMsg
    /\ last_msg.prefix = "op!x@h2"
    /\ last_msg.text = ".Join #b"
    /\ "op" \in DOMAIN owner_records
    /\ owner_records["op"].hosts # {}
    /\ last_out = DeniedOnly(last_msg)

---------------------------------------------------------------------------
(* C3 *)

OnDisk(k, h) ==
    k \in DOMAIN disk.owner_nicks /\ h \in disk.owner_nicks[k].hosts

\* C3: a host binding made by auth is transactional: a host is trusted (is in
\* an owner record in memory) only if the binding has reached the config
\* file, so a binding whose write failed leaves the caller untrusted.
C3_TrustedOnlyIfOnDisk ==
    \A k \in DOMAIN owner_records :
        \A h \in owner_records[k].hosts : OnDisk(k, h)

---------------------------------------------------------------------------
(* C4 *)

C4_Step ==
    (/\ in_count' = in_count + 1
     /\ last_in'.command = "PING"
     /\ last_in'.trailing # NONE)
    => (/\ send_queue' # <<>>
        /\ Head(send_queue') = "PONG :" \o last_in'.trailing)

\* C4: once the reader has handled PING :t, PONG :t is the next line the
\* writer will write: it is in the send queue ahead of every line that has
\* not been written yet, the lines that were already waiting included.
C4_PongAheadOfQueue == [][C4_Step]_vars

---------------------------------------------------------------------------
(* C5 *)

\* C5: in every reachable state at most QUEUE_MAX lines wait in the send
\* queue.
C5_QueueBounded == Len(send_queue) <= QUEUE_MAX

---------------------------------------------------------------------------
(* C6 *)

InFlight(t) == tasks[t].st \in {"pending", "running"}

\* C6: once unload(h) has returned, h's task set is empty and no task that
\* was started for h, the tasks that h's callbacks started themselves
\* included, is still waiting to run or running (a task whose cancellation
\* has been requested counts as cancelled).
C6_UnloadCancelsAll ==
    \A p \in Plugins \ plugins :
        /\ plugin_tasks[p] = {}
        /\ \A t \in TaskIds : tasks[t].owner = p => ~InFlight(t)

---------------------------------------------------------------------------
(* C7 *)

RECURSIVE Pow2(_)
Pow2(n) == IF n = 0 THEN 1 ELSE 2 * Pow2(n - 1)

\* C7: with d = max(reconnect_delay, 1) and m = max_backoff, the backoff
\* sleep after the k-th failed connection attempt in a row lasts
\* min(d * 2^(k-1), m), so no sleep is longer than m.
C7_BackoffWait ==
    (start_pc = "sleeping" /\ fails >= 1) =>
        /\ wait = Min(Max(reconnect_delay, 1) * Pow2(fails - 1), max_backoff)
        /\ wait <= max_backoff

---------------------------------------------------------------------------
(* C8 *)

\* C8: once a connection has been established, the failure that comes next
\* (the connection ending in a socket error included) is followed by a
\* backoff sleep of max(reconnect_delay, 1): start() goes on to that sleep,
\* it does not end with the error.
C8_ResetAfterConnect ==
    (established /\ ~stop_event) =>
        /\ start_pc = "sleeping" => wait = Max(reconnect_delay, 1)
        /\ start_pc # "failed"

---------------------------------------------------------------------------
(* C9 *)

\* C9: when the process has ended after a stop request (and no socket error),
\* start() has returned normally, both tasks have terminated, the socket is
\* closed and the exit code is 0.
C9_CleanShutdown ==
    (signal_sent /\ reader_st # "failed" /\ exit_code # "running") =>
        /\ stop_event
        /\ start_pc = "returned"
        /\ Finished(reader_st) /\ Finished(writer_st)
        /\ sock = "none"
        /\ exit_code = "0"

---------------------------------------------------------------------------
(* C10 *)

\* C10: once the stop() that a stop request started has completed, no task
\* that the registry spawned for a handler is still waiting to run or
\* running.
C10_StopCancelsHandlerTasks ==
    (cl_pc["sig"] = "done" /\ exit_code = "running") =>
        \A t \in TaskIds : tasks[t].kind = "handler" => ~InFlight(t)

---------------------------------------------------------------------------
(* C11 *)

\* the callback each inbound event with a source prefix and its arguments
\* is for
EventCallback ==
    [l \in {":me!u@h JOIN :#b", ":x!u@h JOIN #a", ":me!u@h PART #A",
            ":x!u@h PART #a :bye", ":x!u@h NICK :y", ":x!u@h KICK #a me :r",
            ":x!u@h QUIT :bye"} |->
        IF Find(l, " JOIN ") > 0 THEN "on_join"
        ELSE IF Find(l, " PART ") > 0 THEN "on_part"
        ELSE IF Find(l, " NICK ") > 0 THEN "on_nick"
        ELSE IF Find(l, " KICK ") > 0 THEN "on_kick"
        ELSE "on_quit"]

C11_Step ==
    (line_in = NONE /\ line_in' \in DOMAIN EventCallback)
    => \A p \in plugins :
          Cardinality({t \in TaskIds :
                          /\ tasks[t].st = "free"
                          /\ tasks'[t].st = "pending"
                          /\ tasks'[t].owner = p
                          /\ tasks'[t].name = EventCallback[line_in']})
          = IF EventCallback[line_in'] \in PluginCallbacks[p] THEN 1 ELSE 0

\* C11: when an inbound JOIN, PART, NICK, KICK or QUIT with a source prefix
\* is routed, every loaded plugin that defines the matching callback gets
\* exactly one invocation of it through the registry (and the others none).
C11_EventsBroadcast == [][C11_Step]_vars

---------------------------------------------------------------------------
(* C12 *)

C12_Step == (line_in = NONE /\ line_in' # NONE) => reader_st' = "running"

\* C12: no inbound line ends the reader loop: after any line (unparseable,
\* unknown command, missing parameters, or a known event) the reader task
\* is still running and goes on to the next line.
C12_NoLineEndsReader == [][C12_Step]_vars

---------------------------------------------------------------------------
(* C16 *)

\* the self-JOIN, self-PART and self-KICK among the input lines
PersistLines ==
    {":me!u@h JOIN :#b", ":me!u@h PART #A", ":x!u@h KICK #a me :r"}

NoTwoEqualIgnoringCase(chs) ==
    \A i, j \in DOMAIN chs : Lower(chs[i]) = Lower(chs[j]) => i = j

C16_Step ==
    /\ ( \/ line_in = NONE /\ line_in' \in PersistLines
         \/ last_msg = NoMsg /\ last_msg' # NoMsg )
       => /\ channels' = disk'.channels
          /\ NoTwoEqualIgnoringCase(channels')
    /\ ( /\ line_in = NONE /\ line_in' = ":me!u@h JOIN :#b"
         /\ channels = <<"#a">> /\ disk.channels = <<"#a">> )
       => /\ channels' = <<"#a", "#b">>
          /\ disk'.channels = <<"#a", "#b">>

\* C16: once a join or part command or a self-JOIN, self-PART or self-KICK
\* has run its persist step, the channel list in memory and the one on disk
\* are the same list, without two entries equal ignoring case; from ["#a"]
\* a self-JOIN of #b gives ["#a", "#b"] in both.
C16_ChannelsSameOnDisk == [][C16_Step]_vars

---------------------------------------------------------------------------
(* C17 *)

\* C17: a channel that is known only from the CHANNELS override is never
\* written to the config file.
C17_EnvNeverWritten ==
    env_channels # NONE
    => \A i \in DOMAIN disk.channels, j \in DOMAIN env_channels :
          disk.channels[i] # env_channels[j]

---------------------------------------------------------------------------
(* C13 *)

\* the writer loop has ended on a write error (not on the stop flag) and the
\* connection is still up
WriteFailed == writer_st = "done" /\ ~stop_event /\ sock = "open"

\* C13: when a write to the socket fails, the engine tears the connection
\* down (the socket is closed) by its own steps, whether or not the reader
\* fails or the server closes the connection.
C13_WriteErrorTearsDown == WriteFailed ~> (sock # "open")


---------------------------------------------------------------------------
(* C14 *)

\* process w starts to overwrite the config path: os.replace of
\* atomic_write_yaml, or open(path, "w")
Overwrites(w) ==
    \/ cfg_pc[w] = "open" /\ cfg_pc'[w] = "dump"
    \/ /\ cfg_pc[w] = "replace"
       /\ cfg_pc'[w] = "idle"
       /\ <<disk, file_plugins, file_form>>' # <<disk, file_plugins, file_form>>

\* the document w read, with the part w is writing as the file has it now
ReadBy(w) ==
    IF cfg_op[w].kind = "channels"
    THEN [cfg_data[w] EXCEPT !.channels = disk.channels]
    ELSE [cfg_data[w] EXCEPT !.plugins[cfg_op[w].plugin] =
                                 file_plugins[cfg_op[w].plugin]]

C14_Step ==
    \A w \in ConfigWriters :
        Overwrites(w) => file_form = "whole" /\ ReadBy(w) = ConfigDoc

\* C14: every write of the config file is a read-merge-write that no other
\* writer interleaves: when a process overwrites the file, the file still
\* holds what that process read, so the write loses no other writer's update
C14_NoLostUpdate == [][C14_Step]_vars

---------------------------------------------------------------------------
(* C15 *)

\* C15: the config path never holds an empty or partially written document,
\* whatever write is under way or was cut short by a crash
C15_ConfigAlwaysWhole == file_form = "whole"


---------------------------------------------------------------------------
(* C18 *)

\* the tasks of the registry that are executing a handler
Executing ==
    {t \in TaskIds : tasks[t].st = "running"
                     /\ tasks[t].kind \in {"handler", "command"}}

\* C18: at any time at most MAX_CONCURRENT_HANDLERS tasks spawned by the
\* registry are executing, broadcast callbacks and the coroutines of
\* registered commands counted alike.
C18_AtMostMaxConcurrent == Cardinality(Executing) <= MaxConcurrentTasks

---------------------------------------------------------------------------
(* C19 *)

\* C19: no task the registry spawned, broadcast callback or command
\* coroutine, is still running later than HANDLER_TIMEOUT_SECS after it
\* started: it has been cancelled by then.
C19_NoTaskOutlivesTimeout ==
    \A t \in Executing : tasks[t].age <= HANDLER_TIMEOUT_SECS

---------------------------------------------------------------------------
(* C20 *)

\* the lowercased names a register_command call provides
ProvidedNames(reg) ==
    {Lower(reg.command)} \cup
    {Lower(reg.aliases[i]) : i \in DOMAIN reg.aliases}

C20_Step ==
    (last_reg = NoReg /\ last_reg' # NoReg) =>
        /\ (\E n \in ProvidedNames(last_reg') : n \in DOMAIN commands)
              => ~last_reg'.ok
        /\ ~last_reg'.ok =>
              /\ commands' = commands
              /\ plugin_commands' = plugin_commands

\* C20: a register_command call whose lowercased primary name or one of
\* whose lowercased aliases is already in the command map fails, whichever
\* spec holds the name and whether as primary name or alias; a call that
\* fails leaves the command map and the name sets of the plugins as they
\* were.
C20_RegisterAllOrNothing == [][C20_Step]_vars

\* a registration was refused for a name that is an alias of a command of
\* another plugin
C20_Witness ==
    /\ last_reg # NoReg
    /\ ~last_reg.ok
    /\ \E n \in ProvidedNames(last_reg) :
          /\ n \in DOMAIN commands
          /\ commands[n].name # n
          /\ commands[n].plugin # last_reg.plugin


---------------------------------------------------------------------------
(* C21 *)

\* the lowercased command word of a text that begins with the sigil
CommandWord ==
    [t \in {".say #a hi", ".auth pw", ".Seen x"} |->
        LowerRec(WordsRec(Rest(t, 2))[1])]

\* the tasks running the coroutine of a registered command
CommandTasks(ts) == {t \in TaskIds : ts[t].kind = "command"}

C21_Step ==
    (/\ last_msg = NoMsg
     /\ last_msg' # NoMsg
     /\ CommandWord[last_msg'.text] \in
           {"auth", "whoami", "plugins", "load", "unload", "reload", "say",
            "join", "part", "health", "status", "help"})
    => CommandTasks(tasks') = CommandTasks(tasks)

\* C21: a PRIVMSG whose command word is a builtin is consumed by the
\* builtin: no registered command of that name is invoked for it.
C21_BuiltinConsumes == [][C21_Step]_vars

---------------------------------------------------------------------------
(* C22 *)

\* the nick of a source prefix, lowercased
SourceNick ==
    [p \in {"op!o@h1", "Eve!x@h2"} |->
        LowerRec(SubSeq(p, 1, IndexOf(p, "!") - 1))]

C22_Step ==
    (/\ last_msg = NoMsg
     /\ last_msg' # NoMsg
     /\ SourceNick[last_msg'.prefix] \in ignored_nicks)
    => /\ last_out' = <<>>
       /\ UNCHANGED <<owner_records, channels, disk, write_failed, nickname,
                      send_queue, tasks, plugin_tasks, sem, commands>>

\* C22: a PRIVMSG from a nick whose lowercased form is in the ignore set has
\* no effect: no builtin runs, no registered command is invoked, no
\* on_message task is made and nothing is sent.
C22_IgnoredHasNoEffect == [][C22_Step]_vars

\* an ignored nick sent the auth with the password of its owner record in
\* a query, a plugin with on_message is loaded, and nothing happened
C22_Witness ==
    /\ last_msg # NoMsg
    /\ last_msg.prefix = "Eve!x@h2"
    /\ last_msg.text = ".auth pw"
    /\ last_msg.target = "me"
    /\ "eve" \in ignored_nicks
    /\ owner_records["eve"].password = "pw"
    /\ owner_records["eve"].hosts = {}
    /\ "p1" \in plugins
    /\ last_out = <<>>


---------------------------------------------------------------------------
(* C23 *)

\* m is an auth sent in a query from a prefix n!u@h whose nick has an owner
\* record with the password given
CorrectAuth(records, m) ==
    /\ m.text = ".auth pw"
    /\ Lower(m.target) = Lower(nickname)
    /\ m.prefix \in DOMAIN WellFormedPrefixes
    /\ Lower(WellFormedPrefixes[m.prefix].nick) \in DOMAIN records
    /\ records[Lower(WellFormedPrefixes[m.prefix].nick)].password = "pw"

C23_Step ==
    /\ (last_msg = NoMsg /\ last_msg' # NoMsg
        /\ CorrectAuth(owner_records, last_msg'))
       => OwnerCheckPasses(owner_records', last_msg'.prefix)
    /\ ~Restart =>
          \A p \in OwnerPrefixes :
              OwnerCheckPasses(owner_records, p)
              => OwnerCheckPasses(owner_records', p)
    /\ (last_msg = NoMsg /\ last_msg' # NoMsg
        /\ IsPrivileged[last_msg'.text]
        /\ OwnerCheckPasses(owner_records, last_msg'.prefix))
       => last_out' # DeniedOnly(last_msg')

\* C23: an auth with the password of n's owner record, sent in a query from
\* n!u@h, makes n!u@h pass the owner check; a prefix that passes it keeps
\* passing it for as long as the process runs; and a say, join or part from
\* a prefix that passes it is never denied.  So every say, join or part
\* that follows the auth from the same n!u@h is accepted without another
\* auth.
C23_AuthBindsHost == [][C23_Step]_vars

\* op, whose record came without hosts, was bound by auth and then had a
\* say accepted
C23_Witness ==
    /\ last_msg # NoMsg
    /\ last_msg.prefix = "op!o@h1"
    /\ last_msg.text = ".say #a hi"
    /\ owner_records["op"].nick = "op"
    /\ owner_records["op"].password = "pw"
    /\ last_out = <<PrivmsgLine("#a", "hi"),
                    PrivmsgLine(ReplyTarget(last_msg), "Message sent.")>>


---------------------------------------------------------------------------
(* C24 *)

\* the password an auth text carries
GivenPassword == [t \in {".auth pw", ".auth no"} |-> Rest(t, 7)]

\* m is an auth sent in a query from n!u@h where n has no owner record
UnknownNick(records, m) ==
    /\ m.text \in DOMAIN GivenPassword
    /\ Lower(m.target) = Lower(nickname)
    /\ m.prefix \in DOMAIN WellFormedPrefixes
    /\ Lower(WellFormedPrefixes[m.prefix].nick) \notin DOMAIN records

\* m is an auth sent in a query from n!u@h where n has an owner record with
\* another password
WrongPassword(records, m) ==
    /\ m.text \in DOMAIN GivenPassword
    /\ Lower(m.target) = Lower(nickname)
    /\ m.prefix \in DOMAIN WellFormedPrefixes
    /\ Lower(WellFormedPrefixes[m.prefix].nick) \in DOMAIN records
    /\ LET pw == records[Lower(WellFormedPrefixes[m.prefix].nick)].password
       IN  pw # NONE /\ pw # GivenPassword[m.text]

C24_Step ==
    (/\ last_msg = NoMsg
     /\ last_msg' # NoMsg
     /\ UnknownNick(owner_records, last_msg')
        \/ WrongPassword(owner_records, last_msg'))
    => /\ last_out' = <<PrivmsgLine(WellFormedPrefixes[last_msg'.prefix].nick,
                                    "Authentication failed.")>>
       /\ UNCHANGED <<owner_records, disk, channels>>

\* C24: a failed auth does not tell why it failed: whether the nick has no
\* owner record or has one with another password, the one line sent is the
\* same reply to the caller, depending on nothing but the caller's nick, and
\* the owner records and the config file stay as they were.
C24_AuthFailureUniform == [][C24_Step]_vars

\* op, whose record has the password pw, sent another password in a query
C24_Witness ==
    /\ last_msg # NoMsg
    /\ last_msg.prefix = "op!x@h2"
    /\ last_msg.target = "me"
    /\ last_msg.text = ".auth no"
    /\ owner_records["op"].password = "pw"
    /\ last_out = <<PrivmsgLine("op", "Authentication failed.")>>

---------------------------------------------------------------------------
(* C26 *)

\* an acquire() call returns in this step
AcquireReturns == Len(completions') = Len(completions) + 1

C26_Step ==
    AcquireReturns =>
       \/ call_seq = <<>> /\ call_seq' = <<>>
       \/ call_seq # <<>> /\ call_seq' = Tail(call_seq)

\* C26: callers of one gate leave acquire() in the order in which they
\* entered it: the call that returns is the earliest of the calls that are
\* still inside acquire(), so no later caller is admitted ahead of an
\* earlier one that still waits.
C26_FifoOnTheMutex == [][C26_Step]_vars

\* two calls have returned, the second one out of its sleep at the time
\* now, and the lock is with the waiters that came after it, in the order
\* of their calls
C26_Witness ==
    /\ Len(completions) = 2
    /\ completions[2] = now
    /\ completions[1] < now
    /\ lock_holder = "none"
    /\ Len(lock_waiters) = 2
    /\ call_seq = lock_waiters

---------------------------------------------------------------------------
(* C27 *)

\* the call of c is cancelled in this step
Cancelled(c) ==
    /\ acq_pc[c] \in {"waitlock", "sleeping"}
    /\ acq_pc'[c] = "idle"
    /\ completions' = completions

\* the admissions that still count at time t among the times ts
RECURSIVE Live(_, _)
Live(ts, t) ==
    IF ts = <<>> THEN <<>>
    ELSE IF t - Head(ts) > per_seconds THEN Live(Tail(ts), t)
    ELSE <<Head(ts)>> \o Live(Tail(ts), t)

\* seq ends with suf
EndsWith(seq, suf) ==
    /\ Len(suf) <= Len(seq)
    /\ SubSeq(seq, Len(seq) - Len(suf) + 1, Len(seq)) = suf

C27_Step ==
    \A c \in Callers :
       Cancelled(c) =>
          /\ events' = events
          /\ lock_holder' # c
          /\ lock_holder = c => lock_holder' = "none"
          /\ lock_waiters' = Without(lock_waiters, c)
          /\ call_seq' = Without(call_seq, c)
          /\ EndsWith(completions', events')
          /\ Live(events', now) = Live(completions', now)

\* C27: a call cancelled while it is suspended inside acquire() reserves
\* nothing: the cancellation records no admission, the lock is free of the
\* cancelled caller (released when it held it), the other callers wait in
\* the order they had, and the admissions recorded are those of the calls
\* that returned, all that still count among them, so that later callers are
\* admitted as if the cancelled call had not been made.
C27_CancelLeavesNoSlot == [][C27_Step]_vars

\* caller c was cancelled in its sleep inside acquire(), ahead of the time
\* the sleep was due, with other callers waiting for the lock: the lock is
\* free and the waiters are next
C27_Witness ==
    \E c \in Callers :
       /\ acq_pc[c] = "idle"
       /\ wake_at[c] > now
       /\ lock_holder = "none"
       /\ lock_waiters # <<>>
       /\ call_seq = lock_waiters
       /\ Len(events) >= max_messages

---------------------------------------------------------------------------
(* C25 *)

\* the required keys that the mapping lacks, in the order of Required
MissingKeys(cfg) ==
    SelectSeq([i \in DOMAIN Required |-> Required[i].key],
              LAMBDA key : cfg.types[key] = MISSING)

\* the required keys whose value is not of the required type
WrongTyped(cfg) ==
    {k \in RequiredKeys :
        cfg.types[k] # MISSING /\ cfg.types[k] # TypeOfKey(k)}

\* an owner entry with neither a password nor a host
Bare(entry) ==
    /\ Falsy(entry.password)
    /\ \A i \in DOMAIN entry.hosts : Strip(entry.hosts[i]) = ""

HasBareOwner(cfg) ==
    \E i \in DOMAIN cfg.owner_nicks : Bare(cfg.owner_nicks[i])

\* C25: the config file is accepted exactly when every required key is
\* there with a value of the required type and every owner entry has a
\* password or a host; missing keys raise a KeyError that lists them, a
\* value of another type raises a TypeError that names the key and the
\* type required, an owner entry with neither raises an error.
C25_ConfigAcceptedIffValid ==
    load_result # NoResult =>
       /\ load_result = Accepted
             <=> /\ MissingKeys(config_in) = <<>>
                 /\ WrongTyped(config_in) = {}
                 /\ ~HasBareOwner(config_in)
       /\ MissingKeys(config_in) # <<>> =>
             /\ load_result.error = "KeyError"
             /\ load_result.text = "Missing required config keys: "
                                      \o JoinComma(MissingKeys(config_in))
       /\ MissingKeys(config_in) = <<>> /\ WrongTyped(config_in) # {} =>
             /\ load_result.error = "TypeError"
             /\ \E k \in WrongTyped(config_in) :
                   load_result.text = "Config key '" \o k
                      \o "' must be of type " \o TypeOfKey(k)
       /\ /\ MissingKeys(config_in) = <<>>
          /\ WrongTyped(config_in) = {}
          /\ HasBareOwner(config_in)
          => load_result.error \notin {"none", NONE}

---------------------------------------------------------------------------
(* C28 *)

\* k underscores
RECURSIVE Underscores(_)
Underscores(k) == IF k = 0 THEN "" ELSE "_" \o Underscores(k - 1)

\* a 433 reply is handled in this step
NickInUse == line_in = NONE /\ line_in' \in NickLines

C28_Step ==
    NickInUse =>
       /\ nickname' = "me" \o Underscores(in_count')
       /\ send_queue' = Append(send_queue, "NICK " \o nickname')

\* C28: every 433 reply appends one underscore to the nickname, so that
\* after the k-th reply the nickname is the first one followed by k
\* underscores, and hands one NICK line with the new nickname to the writer.
C28_NickCollision == [][C28_Step]_vars

\* the nickname part alone
C28_NicknameGrows == nickname = "me" \o Underscores(in_count)

---------------------------------------------------------------------------
(* C29 *)

\* start() goes from its loop test into _connect_once in this step
EntersDialing == start_pc # "dialing" /\ start_pc' = "dialing"

C29_Step ==
    EntersDialing =>
       /\ ~established
       /\ fails > 0 => wait > 0

\* C29: the engine dials again only after a backoff sleep: when start()
\* enters _connect_once, no connection has been established since the
\* last sleep, and after a failed dial a sleep has been made.
C29_SleepBeforeRedial == [][C29_Step]_vars

---------------------------------------------------------------------------
(* C30 *)

\* C30: a stop request ends the backoff sleep: start() is never left
\* suspended in asyncio.sleep(backoff) once _stop_event is set.
C30_StopEndsSleep == ~(stop_event /\ start_pc = "sleeping")

---------------------------------------------------------------------------
(* C31 *)

\* open_connection has succeeded in this step and _register has run
ConnectionOpened == start_pc = "dialing" /\ start_pc' = "await_reader"

\* the writer takes the lines from the head of the queue: the first two
\* lines it writes on a connection are the first two the queue holds when
\* the writer task is made
C31_Step ==
    ConnectionOpened =>
       /\ Len(send_queue') >= 2
       /\ SubSeq(send_queue', 1, 2) = <<"NICK me", "USER u 0 * :r">>

\* C31: on every connection the NICK line and then the USER line are the
\* first lines written; no line a handler enqueued before the connection
\* was opened or between two connections goes ahead of them.
C31_RegistrationFirst == [][C31_Step]_vars

---------------------------------------------------------------------------
(* C32 *)

\* C32: every name of the command map was registered by a plugin that is
\* loaded: unload takes all the names of the plugin out and leaves those of
\* the others, and a load whose on_load raised leaves no name behind.
C32_NamesOfLoadedOnly ==
    last_reg = NoReg =>
       \A name \in DOMAIN commands : commands[name].plugin \in plugins

---------------------------------------------------------------------------
(* C33 *)

\* C33: once the plugins are discovered, each of them is either loaded or
\* disabled, not both and not neither, and its enabled flag in the config
\* file tells whether it is loaded.
C33_LoadedOrDisabled ==
    \A p \in known_plugins :
       /\ (p \in plugins) # (p \in disabled_plugins)
       /\ (file_plugins[p] = "true") <=> (p \in plugins)


\* ---------------------------------------------------------------------
\* C34  the task set of a handler and the permits of the semaphore
\* ---------------------------------------------------------------------

\* the tasks that are inside `async with self._task_semaphore`
PermitHolders == {t \in TaskIds : tasks[t].permit}

\* the tasks of the set of p that wait for a permit
WaitingFor(p) ==
    {t \in plugin_tasks[p] : tasks[t].st = "pending" /\ tasks[t].kind = "handler"}

Spawned == {t \in TaskIds : tasks[t].kind \in {"handler", "command"}}

\* a task that was created and has not completed: it waits for the loop or
\* for a permit, runs, or has a cancellation requested that has not been
\* thrown into it yet
Uncompleted(t) == tasks[t].st \in {"pending", "running", "cancelling"}

\* the task sets that hold t
SetsOf(t) == {p \in Plugins : t \in plugin_tasks[p]}

\* C35: every task spawned for a handler's callback or registered command
\* is a member of exactly one handler's task set from its creation until it
\* completes, and of none once it has completed.
C35_InOneSetUntilDone ==
    \A t \in Spawned :
        IF Uncompleted(t)
        THEN Cardinality(SetsOf(t)) = 1
        ELSE SetsOf(t) = {}


\* ---------------------------------------------------------------------
\* C36  the per-target rate across runtime refreshes
\* ---------------------------------------------------------------------

\* the privmsg calls to the target that left its gate in [t, t + W)
LeftGateIn(t) ==
    {i \in DOMAIN completions : t <= completions[i]
                                /\ completions[i] < t + per_seconds}

\* C36: for one target at most per_target_rate_count PRIVMSG lines pass the
\* gate of the target in any window of per_target_rate_window_secs, across
\* any sequence of privmsg calls and of runtime refreshes in between.
C36_PerTargetAcrossRefresh ==
    \A t \in 0..MaxTime : Cardinality(LeftGateIn(t)) <= max_messages


\* ---------------------------------------------------------------------
\* C37  the command map is consistent with its specs
\* ---------------------------------------------------------------------

\* the specs of the command map
Specs == {commands[k] : k \in DOMAIN commands}

\* what list_commands returns, as a set: the first spec met for each
\* primary name
PrimaryNames == {sp.name : sp \in Specs}

\* C37: after any sequence of register_command and unload operations each
\* registered name maps to one spec, the primary name and every alias of
\* each spec is a key of the command map that maps to that spec, and the
\* set of primary names equals the set of keys k with map[k].name = k.
C37_MapConsistent ==
    /\ \A sp \in Specs :
          /\ sp.name \in sp.aliases
          /\ \A n \in sp.aliases : n \in DOMAIN commands /\ commands[n] = sp
    /\ \A k \in DOMAIN commands : k \in commands[k].aliases
    /\ PrimaryNames = {k \in DOMAIN commands : commands[k].name = k}

\* a command with an alias is registered for one plugin after another
\* plugin was unloaded and its names taken out
C37_Witness ==
    /\ last_reg = NoReg
    /\ \E k \in DOMAIN commands : commands[k].name # k
    /\ \E p \in disabled_plugins :
          /\ plugin_commands[p] = {}
          /\ \A k \in DOMAIN commands : commands[k].plugin # p


\* ---------------------------------------------------------------------
\* C38  merging plugin defaults
\* ---------------------------------------------------------------------

\* new is old followed by the items of dflt that old lacks, each once
UnionByValue(old, new, dflt) ==
    /\ Len(new) >= Len(old)
    /\ SubSeq(new, 1, Len(old)) = old
    /\ {new[i] : i \in DOMAIN new}
          = {old[i] : i \in DOMAIN old} \cup {dflt[i] : i \in DOMAIN dflt}
    /\ \A i \in (Len(old) + 1)..Len(new) :
          \A j \in 1..(i - 1) : new[j] # new[i]

\* after is before with the defaults d merged in: the keys of both, every
\* existing value kept, missing ones taken from d, lists united by value,
\* mappings merged key by key
RECURSIVE MergedInto(_, _, _)
MergedInto(before, after, d) ==
    /\ DOMAIN after = DOMAIN before \cup DOMAIN d
    /\ \A k \in DOMAIN before \ DOMAIN d : after[k] = before[k]
    /\ \A k \in DOMAIN d :
          LET old == IF k \in DOMAIN before THEN before[k]
                     ELSE IF d[k].t = "dict" THEN Dict(EmptyMapping)
                     ELSE IF d[k].t = "list" THEN List(<<>>)
                     ELSE d[k]
          IN  CASE old.t = "dict" /\ d[k].t = "dict" ->
                     /\ after[k].t = "dict"
                     /\ MergedInto(old.d, after[k].d, d[k].d)
                [] old.t = "list" /\ d[k].t = "list" ->
                     /\ after[k].t = "list"
                     /\ UnionByValue(old.l, after[k].l, d[k].l)
                [] OTHER -> after[k] = old

MergeStep == merge_log' # merge_log

C38_Step ==
    MergeStep =>
       /\ MergedInto(bot_config, bot_config', merge_log'.defaults)
       /\ \A k \in DOMAIN bot_config :
             bot_config[k].t # "dict" => bot_config'[k].t # "dict"
       /\ merge_log'.again =>
             /\ bot_config' = bot_config
             /\ file_config' = file_config
             /\ ~merge_log'.changed

\* C38: merging a handler's defaults into a config mapping keeps the value
\* of every key that already exists, adds the keys that are missing,
\* unions list-valued defaults by value, never replaces an existing
\* non-mapping value by a mapping, and is idempotent: a second merge of
\* the same defaults leaves the mapping unchanged and reports no change.
C38_MergeDefaults == [][C38_Step]_vars

\* the same defaults were merged a second time into a mapping in which
\* they had extended a list and met a scalar where they hold a mapping
C38_Witness ==
    /\ merge_log.again
    /\ ~merge_log.changed
    /\ \E k \in DOMAIN merge_log.defaults :
          /\ merge_log.defaults[k].t = "list"
          /\ bot_config[k].t = "list"
          /\ Len(bot_config[k].l) > Len(merge_log.defaults[k].l)
    /\ \E k \in DOMAIN merge_log.defaults :
          /\ merge_log.defaults[k].t = "dict"
          /\ bot_config[k].t = "str"


\* ---------------------------------------------------------------------
\* C39  the initial joins
\* ---------------------------------------------------------------------

\* the channels of the JOIN lines the run handed to the queue, in order
JoinedChannels == [i \in DOMAIN join_run.log |-> join_run.log[i].channel]

\* C39: on 001 the client emits one JOIN for every configured channel, in
\* configured order, with no delay before the first JOIN and
\* join_delay_secs between consecutive JOINs, and a failure while joining
\* one channel does not prevent the JOINs of the remaining channels: when
\* the run has ended, by its return or by an exception, its JOINs are
\* those of the configured channels, the first at the time of the 001 and
\* each later one join_delay_secs or more after the one before.
C39_InitialJoins ==
    join_run.pc \in {"done", "raised"} =>
       /\ JoinedChannels = join_run.configured
       /\ join_run.log # <<>> => join_run.log[1].at = join_run.start
       /\ \A i \in 1..(Len(join_run.log) - 1) :
             join_run.log[i + 1].at - join_run.log[i].at >= join_run.delay


\* ---------------------------------------------------------------------
\* C40  no dial once the stop flag is set
\* ---------------------------------------------------------------------

C40_Step == EntersDialing => ~stop_event

\* C40: once the stop flag is set the engine never starts a new dial: no
\* step in which start() goes on to open_connection is taken from a state
\* in which the flag is set, whether the flag was set while the engine was
\* connected, dialing or in a backoff sleep.
C40_NoDialAfterStop == [][C40_Step]_vars

\* the flag was set during a backoff sleep, the sleep has ended and the
\* loop test has made start() return
C40_Witness ==
    /\ stop_event
    /\ start_pc = "returned"
    /\ wait > 0
    /\ ~established

=============================================================================
